---- MODULE Spec2Model ----
(***************************************************************************)
(* Model of the botronka runtime: the shared arbitration store             *)
(* (src/src/core/state.py) and the event bus dispatcher                    *)
(* (src/src/threads/threadManager.py, src/src/threads/baseThread.py).      *)
(*                                                                         *)
(* Time is counted in quarter seconds of the monotonic clock, so the       *)
(* program constants 0.5 s and 10.0 s are the integers 2 and 40.           *)
(***************************************************************************)
EXTENDS Integers, Sequences, FiniteSets, TLC

\* ------------------------------------------------------------------ bounds
MaxClock == 3
\* messages the run loops publish in one behaviour
MaxPublished == 3

\* input messages published in the composed system
MaxInputs == 2

\* capture sessions the audio loop opens in the composed system
MaxSessions == 1

\* registrations the agent starts
MaxRequests == 2

\* the clock value up to which the registration flow is followed
MaxRegisterClock == 8

\* calls of start() on one worker
MaxStarts == 2

\* words in a command text given to the parser
MaxWords == 2

\* wake probes and capture sessions the audio loop runs in the wake pipeline
MaxProbes == 2

\* the clock value up to which the wake pipeline is followed
MaxSttClock == 6

\* capture sessions the audio loop opens when it is followed alone
MaxCaptures == 2

\* the clock value up to which the greeting policy is followed
MaxGreetClock == 6

\* the clock value up to which follow mode is followed
MaxFollowClock == 6

\* ------------------------------------------------------- program constants
\* max(0.5, duration_s): the shortest wake window, in quarter seconds
MinWakeWindow == 2
\* the duration used when the payload gives none, 10.0 s in quarter seconds
DefaultWakeWindow == 40

\* ------------------------------------------------------------- JSON values
\* A JSON value after json.loads, as a record of one shape for every type.
JBool(x) == [t |-> "bool", b |-> x, n |-> 0, s |-> ""]
JNum(k) == [t |-> "num", b |-> FALSE, n |-> k, s |-> ""]
JStr(x) == [t |-> "str", b |-> FALSE, n |-> 0, s |-> x]
\* JSON null, which json.loads turns into Python's None
JNull == [t |-> "null", b |-> FALSE, n |-> 0, s |-> ""]
\* the marker of a key the object does not have
JAbsent == [t |-> "absent", b |-> FALSE, n |-> 0, s |-> ""]
\* Python's None as the value of an Optional field
None == JNull

Keys ==
  {"value", "face_detected", "trust_level", "wav_path", "text", "speak",
   "command", "duration_s", "moving", "active", "ok", "error", "stt_ms",
   "steps"}

EmptyObj == [k \in Keys |-> JAbsent]

\* The three shapes of a message content: text json.loads rejects, JSON that
\* is not an object (a list, a number, null), and a JSON object.
Unparseable == [form |-> "unparseable", obj |-> EmptyObj]
NonObject == [form |-> "nonobject", obj |-> EmptyObj]
Obj1(k, v) == [form |-> "object", obj |-> [EmptyObj EXCEPT ![k] = v]]
Obj2(k1, v1, k2, v2) ==
  [form |-> "object", obj |-> [EmptyObj EXCEPT ![k1] = v1, ![k2] = v2]]
Obj0 == [form |-> "object", obj |-> EmptyObj]

\* json.loads(content) raises, or payload.get raises AttributeError
LoadsOrGetRaises(content) == content.form # "object"

\* payload.get(key, default)
Get(content, key, default) ==
  IF content.obj[key] = JAbsent THEN default ELSE content.obj[key]

\* bool(v)
PyBool(v) ==
  CASE v.t = "bool" -> v.b
    [] v.t = "num" -> v.n # 0
    [] v.t = "str" -> v.s # ""
    [] OTHER -> FALSE

\* isinstance(v, (float, int)): a Python bool is an int
IsNumber(v) == v.t \in {"num", "bool"}

\* float(v) of a value for which it does not raise
PyFloat(v) == IF v.t = "bool" THEN (IF v.b THEN 1 ELSE 0) ELSE v.n

\* float(v) raises TypeError on None and ValueError on a string that is not
\* a number (the strings of this model are words, never numerals)
PyFloatRaises(v) == v.t \in {"null", "str"}

\* str(v)
PyStr(v) ==
  CASE v.t = "str" -> v.s
    [] v.t = "bool" -> (IF v.b THEN "True" ELSE "False")
    [] v.t = "num" -> ToString(v.n)
    [] OTHER -> "None"

\* s.upper(), for the strings of this model
Upper(s) ==
  CASE s = "Guest" -> "GUEST"
    [] s = "owner" -> "OWNER"
    [] s = "Friend" -> "FRIEND"
    [] s = "None" -> "NONE"
    [] OTHER -> s

\* s.strip(), for the strings of this model
Strip(s) ==
  CASE s = " hi " -> "hi"
    [] OTHER -> s

Max(a, b) == IF a >= b THEN a ELSE b

\* ------------------------------------------------------------------- store
AudioMode == {"IDLE", "ENGAGED", "LISTENING", "THINKING", "SPEAKING"}
TrustLevel == {"UNKNOWN", "GUEST", "FRIEND", "OWNER"}

AudioRuntimeState ==
  [mode |-> "IDLE",
   mic_muted |-> FALSE,
   tts_playing |-> FALSE,
   llm_thinking |-> FALSE,
   robot_moving |-> FALSE,
   buzzer_active |-> FALSE,
   last_utterance_wav |-> None,
   last_user_text |-> "",
   last_reply_text |-> "",
   last_command |-> None,
   wake_override_until_monotonic |-> 0]

SharedRuntimeState ==
  [face_present |-> FALSE,
   trust |-> "UNKNOWN",
   distance_cm |-> None,
   audio |-> AudioRuntimeState]

VARIABLES
  state,    \* RuntimeStateStore._state
  now,      \* time.monotonic(), in quarter seconds
  last,     \* the last call made on the store and what it returned
  wake,     \* history of the last audio_wake_detected, for the wake window
  twin,     \* the store of a second run replaying the same messages
  queue,    \* the bus: queue.Queue[Message] shared by every worker
  pc,       \* where the dispatcher thread is in ThreadManager.run
  cur,      \* the message ThreadManager.run took from the queue last
  idx,      \* position of broadcast_message in ThreadManager.threads
  received, \* per worker, the ids handle_message was invoked with, in order
  published, \* every message put on the queue, in the order of the puts
  inbox,    \* per worker, the ids its handle_message put in its private inbox
  motion,   \* the MotionControlThread object and the calls of its last operation
  mcall,    \* the last operation run on the motion engine
  reported, \* the value of the last motion_state the engine published
  audio,    \* the AudioIOThread object and where its run loop is
  tts,      \* where the run loop of TTSWorker is
  life,     \* the running flag of MotionControlThread and where its run is
  agent,    \* the AgentWorker object and where its registration flow is
  vision,   \* the VisionThread object and the request it is registering
  thread,   \* per worker with a run loop, its BaseThread fields and where run is
  manager,  \* the ThreadManager: its running flag and where the main thread is
  parsed_command, \* what parse_motion_command returned last
  stt,      \* the STTWorker object, where its run loop and its handler are
  files,    \* the wav files that exist in AudioIOConfig.utterance_dir
  rec,      \* the locals of record_utterance and where its loop is
  pulse,    \* history of the follow pulses _tick_follow started
  answer    \* what AgentWorker.run did with the last stt_text it took

storeVars == <<state, now, last, wake, twin>>
busVars == <<queue, pc, cur, idx, received, published, inbox>>
engineVars == <<motion, mcall, reported>>
workerVars == <<audio, tts>>
registerVars == <<agent, vision>>
cancelVars == <<thread, manager>>
sttVars == <<stt, files>>
restVars == <<rec, pulse, answer>>
lateVars == <<life, registerVars, cancelVars, parsed_command, sttVars, restVars>>
vars ==
  <<state, now, last, wake, twin, queue, pc, cur, idx, received, published,
    inbox, motion, mcall, reported, audio, tts, life, agent, vision, thread,
    manager, parsed_command, stt, files, rec, pulse, answer>>

NoWake == [armed |-> FALSE, at |-> 0, dur |-> 0, pre_ok |-> FALSE]

\* op: the method called; malformed: whether apply_message was given a payload
\* that is not a JSON object; result: what can_open_mic returned
Call(op, malformed, result) ==
  [op |-> op, malformed |-> malformed, result |-> result]

_wake_active_unlocked(s, t) == t < s.audio.wake_override_until_monotonic

\* can_open_mic_state with the llm_thinking test left out of the guard
can_open_mic_state_ignores_thinking(s, t) ==
  IF /\ ~_wake_active_unlocked(s, t)
     /\ ~s.face_present
     /\ s.audio.mode = "ENGAGED"
     /\ ~s.audio.tts_playing
  THEN [s EXCEPT !.audio.mode = "IDLE"]
  ELSE s

\* can_open_mic_state with the face_present test left out of the guard
can_open_mic_state_ignores_face(s, t) ==
  IF /\ ~_wake_active_unlocked(s, t)
     /\ s.audio.mode = "ENGAGED"
     /\ ~s.audio.tts_playing
     /\ ~s.audio.llm_thinking
  THEN [s EXCEPT !.audio.mode = "IDLE"]
  ELSE s

\* the state can_open_mic leaves behind: its self-correcting demotion
can_open_mic_state(s, t) ==
  IF /\ ~_wake_active_unlocked(s, t)
     /\ ~s.face_present
     /\ s.audio.mode = "ENGAGED"
     /\ ~s.audio.tts_playing
     /\ ~s.audio.llm_thinking
  THEN [s EXCEPT !.audio.mode = "IDLE"]
  ELSE s

\* can_open_mic with the muted and busy tests left out
can_open_mic_no_busy_tests(s, t) ==
  LET a == can_open_mic_state(s, t).audio
  IN /\ (s.face_present \/ _wake_active_unlocked(s, t))
     /\ a.mode \in {"ENGAGED", "IDLE"}

\* can_open_mic with the mode test left out
can_open_mic_any_mode(s, t) ==
  LET a == can_open_mic_state(s, t).audio
  IN /\ (s.face_present \/ _wake_active_unlocked(s, t))
     /\ ~a.mic_muted
     /\ ~a.tts_playing
     /\ ~a.robot_moving
     /\ ~a.buzzer_active

\* the value can_open_mic returns, on the state after the demotion
can_open_mic(s, t) ==
  LET a == can_open_mic_state(s, t).audio
  IN /\ (s.face_present \/ _wake_active_unlocked(s, t))
     /\ ~a.mic_muted
     /\ ~a.tts_playing
     /\ ~a.robot_moving
     /\ ~a.buzzer_active
     /\ a.mode \in {"ENGAGED", "IDLE"}

\* the mode the store falls back to when a session or a speech ends
presence_mode(s, t) ==
  IF s.face_present \/ _wake_active_unlocked(s, t) THEN "ENGAGED" ELSE "IDLE"

trust_of(text) ==
  CASE text = "OWNER" -> "OWNER"
    [] text = "FRIEND" -> "FRIEND"
    [] text = "GUEST" -> "GUEST"
    [] OTHER -> "UNKNOWN"

apply_distance_cm(s, c) ==
  IF LoadsOrGetRaises(c) THEN s
  ELSE LET value == Get(c, "value", None)
       IN IF IsNumber(value)
          THEN [s EXCEPT !.distance_cm = JNum(PyFloat(value))]
          ELSE s

\* apply_vision_identity without the promotion of IDLE on a face
apply_vision_identity_no_promotion(s, c, t) ==
  IF LoadsOrGetRaises(c) THEN s
  ELSE LET face == PyBool(Get(c, "face_detected", JBool(FALSE)))
           trust_text == Upper(PyStr(Get(c, "trust_level", JStr("UNKNOWN"))))
           s1 == [s EXCEPT !.face_present = face, !.trust = trust_of(trust_text)]
       IN IF face
          THEN s1
          ELSE IF s1.audio.mode # "SPEAKING"
               THEN [s1 EXCEPT !.audio.mode =
                       IF _wake_active_unlocked(s1, t) THEN "ENGAGED" ELSE "IDLE"]
               ELSE s1

apply_vision_identity(s, c, t) ==
  IF LoadsOrGetRaises(c) THEN s
  ELSE LET face == PyBool(Get(c, "face_detected", JBool(FALSE)))
           trust_text == Upper(PyStr(Get(c, "trust_level", JStr("UNKNOWN"))))
           s1 == [s EXCEPT !.face_present = face, !.trust = trust_of(trust_text)]
       IN IF face
          THEN IF s1.audio.mode = "IDLE"
               THEN [s1 EXCEPT !.audio.mode = "ENGAGED"]
               ELSE s1
          ELSE IF s1.audio.mode # "SPEAKING"
               THEN [s1 EXCEPT !.audio.mode =
                       IF _wake_active_unlocked(s1, t) THEN "ENGAGED" ELSE "IDLE"]
               ELSE s1

apply_audio_listening_started(s) == [s EXCEPT !.audio.mode = "LISTENING"]

apply_audio_listening_finished(s, t) ==
  [s EXCEPT !.audio.mode = presence_mode(s, t)]

apply_audio_utterance(s, c) ==
  IF LoadsOrGetRaises(c) THEN s
  ELSE [s EXCEPT !.audio.last_utterance_wav = Get(c, "wav_path", None)]

apply_stt_text(s, c) ==
  IF LoadsOrGetRaises(c) THEN s
  ELSE [s EXCEPT !.audio.last_user_text = Strip(PyStr(Get(c, "text", JStr("")))),
                 !.audio.mode = "THINKING"]

apply_llm_thinking(s, c) ==
  IF LoadsOrGetRaises(c)
  THEN [s EXCEPT !.audio.llm_thinking = FALSE]
  ELSE [s EXCEPT !.audio.llm_thinking = PyBool(Get(c, "value", JBool(FALSE)))]

apply_agent_reply(s, c) ==
  IF LoadsOrGetRaises(c) THEN s
  ELSE LET cmd == Get(c, "command", None)
       IN [s EXCEPT !.audio.last_reply_text = Strip(PyStr(Get(c, "speak", JStr("")))),
                    !.audio.last_command =
                       IF PyBool(cmd) THEN JStr(PyStr(cmd)) ELSE None]

\* apply_tts_started that sets the mode and not the flags
apply_tts_started_mode_only(s) ==
  [s EXCEPT !.audio.mode = "SPEAKING"]

apply_tts_started(s) ==
  [s EXCEPT !.audio.tts_playing = TRUE,
            !.audio.mic_muted = TRUE,
            !.audio.mode = "SPEAKING"]

\* apply_tts_finished that unmutes whatever else is busy
apply_tts_finished_unmutes(s, t) ==
  [s EXCEPT !.audio.tts_playing = FALSE,
            !.audio.mic_muted = FALSE,
            !.audio.mode = presence_mode(s, t)]

\* apply_tts_finished that leaves mic_muted as tts_started set it
apply_tts_finished_stays_muted(s, t) ==
  [s EXCEPT !.audio.tts_playing = FALSE,
            !.audio.mode = presence_mode(s, t)]

apply_tts_finished(s, t) ==
  [s EXCEPT !.audio.tts_playing = FALSE,
            !.audio.mic_muted = s.audio.robot_moving \/ s.audio.buzzer_active,
            !.audio.mode = presence_mode(s, t)]

\* the duration_s the handler ends up with, in quarter seconds
wake_duration_s(c) ==
  IF LoadsOrGetRaises(c) THEN DefaultWakeWindow
  ELSE LET d == Get(c, "duration_s", JNum(DefaultWakeWindow))
       IN IF PyFloatRaises(d) THEN DefaultWakeWindow ELSE PyFloat(d)

\* apply_audio_wake_detected without the 0.5 s floor
apply_audio_wake_detected_no_floor(s, c, t) ==
  [s EXCEPT !.audio.wake_override_until_monotonic = t + wake_duration_s(c),
            !.audio.mode = IF s.audio.mode = "IDLE" THEN "ENGAGED" ELSE @]

apply_audio_wake_detected(s, c, t) ==
  [s EXCEPT !.audio.wake_override_until_monotonic =
               t + Max(MinWakeWindow, wake_duration_s(c)),
            !.audio.mode = IF s.audio.mode = "IDLE" THEN "ENGAGED" ELSE @]

\* apply_motion_state that clears the flag on a payload it cannot read, the
\* way the llm_thinking branch does
apply_motion_state_clears_on_error(s, c) ==
  IF LoadsOrGetRaises(c)
  THEN [s EXCEPT !.audio.robot_moving = FALSE]
  ELSE LET moving == PyBool(Get(c, "moving", JBool(FALSE)))
       IN [s EXCEPT !.audio.robot_moving = moving,
                    !.audio.mic_muted =
                       moving \/ s.audio.tts_playing \/ s.audio.buzzer_active]

apply_motion_state(s, c) ==
  IF LoadsOrGetRaises(c) THEN s
  ELSE LET moving == PyBool(Get(c, "moving", JBool(FALSE)))
       IN [s EXCEPT !.audio.robot_moving = moving,
                    !.audio.mic_muted =
                       moving \/ s.audio.tts_playing \/ s.audio.buzzer_active]

apply_buzzer_state(s, c) ==
  IF LoadsOrGetRaises(c) THEN s
  ELSE LET active == PyBool(Get(c, "active", JBool(FALSE)))
       IN [s EXCEPT !.audio.buzzer_active = active,
                    !.audio.mic_muted =
                       active \/ s.audio.tts_playing \/ s.audio.robot_moving]

\* RuntimeStateStore.apply_message: the store after replaying one message at
\* clock value t
apply_message(s, msg, t) ==
  CASE msg.type = "distance_cm" -> apply_distance_cm(s, msg.content)
    [] msg.type = "vision_identity" -> apply_vision_identity(s, msg.content, t)
    [] msg.type = "audio_listening_started" -> apply_audio_listening_started(s)
    [] msg.type = "audio_listening_finished" -> apply_audio_listening_finished(s, t)
    [] msg.type = "audio_utterance" -> apply_audio_utterance(s, msg.content)
    [] msg.type = "stt_text" -> apply_stt_text(s, msg.content)
    [] msg.type = "llm_thinking" -> apply_llm_thinking(s, msg.content)
    [] msg.type = "agent_reply" -> apply_agent_reply(s, msg.content)
    [] msg.type = "tts_started" -> apply_tts_started(s)
    [] msg.type = "tts_finished" -> apply_tts_finished(s, t)
    [] msg.type = "audio_wake_detected" -> apply_audio_wake_detected(s, msg.content, t)
    [] msg.type = "motion_state" -> apply_motion_state(s, msg.content)
    [] msg.type = "buzzer_state" -> apply_buzzer_state(s, msg.content)
    [] OTHER -> s

\* snapshot(): a deep copy of the state
snapshot(s) == s

\* ------------------------------------------------------------------ inputs
Msg(type, content) == [type |-> type, content |-> content]

Malformed == {Unparseable, NonObject}

\* the tags apply_message has a branch for
HandledTags ==
  {"distance_cm", "vision_identity", "audio_listening_started",
   "audio_listening_finished", "audio_utterance", "stt_text", "llm_thinking",
   "agent_reply", "tts_started", "tts_finished", "audio_wake_detected",
   "motion_state", "buzzer_state"}

\* the declared wake durations tried: below and above the 0.5 s floor
WakeDurations == {1, 3}

WellFormed(type) ==
  CASE type = "distance_cm" -> {Obj1("value", JNum(30)), Obj1("value", JStr("far"))}
    [] type = "vision_identity" ->
         {Obj2("face_detected", JBool(TRUE), "trust_level", JStr("Guest")),
          Obj1("face_detected", JBool(TRUE)),
          Obj1("face_detected", JBool(FALSE))}
    [] type = "audio_utterance" -> {Obj1("wav_path", JStr("a.wav"))}
    [] type = "stt_text" -> {Obj1("text", JStr(" hi "))}
    [] type = "llm_thinking" -> {Obj1("value", JBool(TRUE)), Obj1("value", JBool(FALSE))}
    [] type = "agent_reply" -> {Obj2("speak", JStr("ok"), "command", JStr("stop")), Obj0}
    [] type = "audio_wake_detected" ->
         {Obj1("duration_s", JNum(d)) : d \in WakeDurations}
           \cup {Obj1("duration_s", JStr("soon")), Obj0}
    [] type = "motion_state" -> {Obj1("moving", JBool(TRUE)), Obj1("moving", JBool(FALSE))}
    [] type = "buzzer_state" -> {Obj1("active", JBool(TRUE)), Obj1("active", JBool(FALSE))}
    [] OTHER -> {Obj0}

\* every tag with every payload of the model: what the replay claims range over
Messages ==
  UNION {{Msg(type, c) : c \in WellFormed(type) \cup Malformed} :
           type \in HandledTags \cup {"tts_request"}}

\* the object payloads that take every branch deciding mode, flags, presence,
\* trust and the wake window, and record nothing else in the store
ControlPayloads(type) ==
  CASE type = "distance_cm" -> {Obj1("value", JStr("far"))}
    [] type = "audio_utterance" -> {Obj0}
    [] type = "stt_text" -> {Obj0}
    [] type = "agent_reply" -> {Obj0}
    [] OTHER -> WellFormed(type)

\* every tag again, with the payloads above and the malformed ones
ControlMessages ==
  UNION {{Msg(type, c) : c \in ControlPayloads(type) \cup Malformed} :
           type \in HandledTags \cup {"tts_request"}}

\* --------------------------------------------------------------------- bus
\* ThreadManager.threads: the workers in the order BotApp registers them
threads ==
  <<"UltrasonicFront", "BuzzerThread", "OledDisplay", "VisionThread",
    "AudioIOThread", "STTWorker", "AgentWorker", "TTSWorker",
    "MotionControlThread">>

Workers == {threads[i] : i \in 1..Len(threads)}

\* Message(sender, type, content, sent_at), with the position of its put as id
BusMsg(id, sender, type, content) ==
  [id |-> id, sender |-> sender, type |-> type, content |-> content]

NoMsg == BusMsg(0, "", "", Obj0)

\* the buzzer sounds below this distance, in cm
TooCloseCm == 15

\* BuzzerThread.handle_message raises before it publishes anything:
\* json.loads or .get fail outside any try
BuzzerParseRaises(msg) ==
  /\ msg.type \in {"distance_cm", "buzzer_countdown"}
  /\ LoadsOrGetRaises(msg.content)

\* BuzzerThread.handle_message goes on to play a pattern on the calling thread
BuzzerPlaysPattern(msg) ==
  /\ ~LoadsOrGetRaises(msg.content)
  /\ \/ /\ msg.type = "distance_cm"
        /\ IsNumber(Get(msg.content, "value", None))
        /\ PyFloat(Get(msg.content, "value", None)) < TooCloseCm
     \/ msg.type = "buzzer_countdown"

\* OledDisplay.handle_message catches only JSONDecodeError around json.loads
\* and .get: a payload that parses to something else than an object raises
OledDisplayRaises(msg) ==
  msg.type = "distance_cm" /\ msg.content.form = "nonobject"

\* AudioIOThread.handle_message calls payload.get outside its try
AudioIOThreadRaises(msg) ==
  msg.type = "vision_identity" /\ msg.content.form = "nonobject"

\* handle_message of worker w lets an exception out to its caller
HandlerRaises(w, msg) ==
  CASE w = "BuzzerThread" -> BuzzerParseRaises(msg)
    [] w = "OledDisplay" -> OledDisplayRaises(msg)
    [] w = "AudioIOThread" -> AudioIOThreadRaises(msg)
    [] OTHER -> FALSE

\* the tags each handle_message copies into its worker's inbox
VisionThreadInbox == {"vision_register_request"}

\* _normal_inbox; audio_wake_candidate goes to the newest-wake slot instead
STTWorkerInbox == {"audio_utterance"}

\* _inbox; vision_register_result goes to _register_results instead
AgentWorkerInbox == {"stt_text"}

TTSWorkerInbox == {"tts_request"}

MotionControlThreadInbox == {"motion_command", "distance_cm"}

\* the inbox tags of worker w; BaseThread.handle_message keeps nothing
InboxTags(w) ==
  CASE w = "VisionThread" -> VisionThreadInbox
    [] w = "STTWorker" -> STTWorkerInbox
    [] w = "AgentWorker" -> AgentWorkerInbox
    [] w = "TTSWorker" -> TTSWorkerInbox
    [] w = "MotionControlThread" -> MotionControlThreadInbox
    [] OTHER -> {}

\* the inbox of worker w after handle_message(msg) returned
handle_message(w, msg, box) ==
  IF msg.type \in InboxTags(w) THEN Append(box, msg.id) ELSE box

\* the messages the worker threads publish from their run loops
Publishable ==
  {[sender |-> "UltrasonicFront", type |-> "distance_cm",
    content |-> Obj1("value", JNum(10))],
   [sender |-> "UltrasonicFront", type |-> "distance_cm",
    content |-> Obj1("value", JNum(30))],
   [sender |-> "VisionThread", type |-> "vision_identity",
    content |-> Obj2("face_detected", JBool(TRUE), "trust_level", JStr("Guest"))],
   [sender |-> "AgentWorker", type |-> "tts_request",
    content |-> Obj1("text", JStr("ok"))]}

\* number of messages the run loops have published so far
PublishedByRunLoops ==
  Cardinality({i \in 1..Len(published) : published[i].sender # "BuzzerThread"})

\* the messages the dispatcher has taken from the queue so far
Dequeued == SubSeq(published, 1, Len(published) - Len(queue))

Ids(seq) == [i \in 1..Len(seq) |-> seq[i].id]

\* ----------------------------------------------------------- motion engine
\* command texts are sequences of characters
Digits == <<"0", "1", "2", "3", "4", "5", "6", "7", "8", "9">>

UpperCase ==
  <<"A", "B", "C", "D", "E", "F", "G", "H", "I", "J", "K", "L", "M", "N", "O",
    "P", "Q", "R", "S", "T", "U", "V", "W", "X", "Y", "Z">>

LowerCase ==
  <<"a", "b", "c", "d", "e", "f", "g", "h", "i", "j", "k", "l", "m", "n", "o",
    "p", "q", "r", "s", "t", "u", "v", "w", "x", "y", "z">>

IsDigit(c) == \E i \in 1..Len(Digits) : Digits[i] = c

DigitValue(c) == (CHOOSE i \in 1..Len(Digits) : Digits[i] = c) - 1

\* \w of the regular expressions: a letter, a digit or the underscore
IsWordChar(c) ==
  \/ IsDigit(c)
  \/ c = "_"
  \/ \E i \in 1..Len(LowerCase) : LowerCase[i] = c \/ UpperCase[i] = c

\* str.lower()
lower(text) ==
  [i \in 1..Len(text) |->
     IF \E k \in 1..Len(UpperCase) : UpperCase[k] = text[i]
     THEN LowerCase[CHOOSE k \in 1..Len(UpperCase) : UpperCase[k] = text[i]]
     ELSE text[i]]

\* str.strip()
strip(text) ==
  LET inked == {i \in 1..Len(text) : text[i] # " "}
  IN IF inked = {} THEN <<>>
     ELSE SubSeq(text, CHOOSE i \in inked : \A j \in inked : i <= j,
                       CHOOSE i \in inked : \A j \in inked : j <= i)

\* tok in cmd: tok occurs in cmd as a substring
In(tok, cmd) ==
  \E i \in 1..(Len(cmd) - Len(tok) + 1) : SubSeq(cmd, i, i + Len(tok) - 1) = tok

RECURSIVE DecimalValue(_)
\* float() of a run of digits
DecimalValue(ds) ==
  IF ds = <<>> THEN 0
  ELSE 10 * DecimalValue(SubSeq(ds, 1, Len(ds) - 1)) + DigitValue(ds[Len(ds)])

\* the positions (i, j) where digits i..j, then spaces, then unit, then a word
\* boundary match in cmd: the pattern \d+\s*unit\b (commands of the model carry
\* no decimal point)
UnitMatches(cmd, unit) ==
  {p \in (1..Len(cmd)) \X (1..Len(cmd)) :
     /\ p[1] <= p[2]
     /\ \A k \in p[1]..p[2] : IsDigit(cmd[k])
     /\ \E u \in (p[2] + 1)..(Len(cmd) - Len(unit) + 1) :
          /\ \A k \in (p[2] + 1)..(u - 1) : cmd[k] = " "
          /\ SubSeq(cmd, u, u + Len(unit) - 1) = unit
          /\ u + Len(unit) - 1 = Len(cmd) \/ ~IsWordChar(cmd[u + Len(unit)])}

\* re.search: the leftmost match, its digits taken greedily; 0 - 1 stands
\* for no match
SearchNumber(cmd, units) ==
  LET ms == UNION {UnitMatches(cmd, units[k]) : k \in 1..Len(units)}
  IN IF ms = {} THEN 0 - 1
     ELSE LET i == CHOOSE i \in {p[1] : p \in ms} : \A p \in ms : i <= p[1]
              j == CHOOSE j \in {p[2] : p \in ms} :
                     /\ <<i, j>> \in ms
                     /\ \A p \in ms : p[1] = i => p[2] <= j
          IN DecimalValue(SubSeq(cmd, i, j))

\* a missing duration, distance or target (Python's None)
Missing == 0 - 1

\* quarter seconds in a second, the unit of the clock
TicksPerSecond == 4

\* half centimetres in a centimetre, the unit of distances
UnitsPerCm == 2

\* _extract_seconds, in clock ticks
_extract_seconds(cmd) ==
  LET v == SearchNumber(cmd, <<<<"s">>, <<"s", "e", "c">>, <<"s", "e", "c", "s">>, <<"s", "e", "c", "o", "n", "d">>, <<"s", "e", "c", "o", "n", "d", "s">>>>)
  IN IF v = Missing THEN Missing ELSE Max(0, v * TicksPerSecond)

\* _extract_distance_cm, in half centimetres: centimetres first, then metres
_extract_distance_cm(cmd) ==
  LET cm == SearchNumber(cmd, <<<<"c", "m">>>>)
      m == SearchNumber(cmd, <<<<"m">>>>)
  IN IF cm # Missing THEN Max(0, cm * UnitsPerCm)
     ELSE IF m # Missing THEN Max(0, m * 100 * UnitsPerCm)
     ELSE Missing

ParsedMotionCommand(action, duration_s, follow_target_cm) ==
  [action |-> action, duration_s |-> duration_s,
   follow_target_cm |-> follow_target_cm]

stepper_hint(cmd) ==
  \/ In(<<"s", "t", "e", "p", "p", "e", "r">>, cmd)
  \/ In(<<"s", "t", "e", "e", "r">>, cmd)
  \/ In(<<"s", "t", "e", "e", "r", "i", "n", "g">>, cmd)
  \/ In(<<"h", "e", "a", "d">>, cmd)
  \/ In(<<"p", "a", "n">>, cmd)

drive_verb(cmd) ==
  \/ In(<<"t", "u", "r", "n">>, cmd)
  \/ In(<<"m", "o", "v", "e">>, cmd)
  \/ In(<<"g", "o">>, cmd)
  \/ In(<<"r", "o", "t", "a", "t", "e">>, cmd)

\* parse_motion_command that looks for follow before the stop tokens
parse_motion_command_follow_first(command_text) ==
  LET cmd == lower(strip(command_text))
  IN IF In(<<"f", "o", "l", "l", "o", "w">>, cmd)
     THEN ParsedMotionCommand("follow", _extract_seconds(cmd), _extract_distance_cm(cmd))
     ELSE IF \/ In(<<"s", "t", "o", "p">>, cmd)
             \/ In(<<"h", "a", "l", "t">>, cmd)
             \/ In(<<"c", "a", "n", "c", "e", "l">>, cmd)
             \/ In(<<"f", "r", "e", "e", "z", "e">>, cmd)
     THEN ParsedMotionCommand("stop", Missing, Missing)
     ELSE ParsedMotionCommand("unknown", Missing, Missing)

parse_motion_command(command_text) ==
  LET cmd == lower(strip(command_text))
      duration_s == _extract_seconds(cmd)
  IN IF cmd = <<>> THEN ParsedMotionCommand("unknown", Missing, Missing)
     ELSE IF \/ In(<<"s", "t", "o", "p">>, cmd)
             \/ In(<<"h", "a", "l", "t">>, cmd)
             \/ In(<<"c", "a", "n", "c", "e", "l">>, cmd)
             \/ In(<<"f", "r", "e", "e", "z", "e">>, cmd)
     THEN ParsedMotionCommand("stop", Missing, Missing)
     ELSE IF In(<<"f", "o", "l", "l", "o", "w">>, cmd)
     THEN ParsedMotionCommand("follow", duration_s, _extract_distance_cm(cmd))
     ELSE IF In(<<"c", "e", "n", "t", "e", "r">>, cmd) /\ stepper_hint(cmd)
     THEN ParsedMotionCommand("stepper_center", Missing, Missing)
     ELSE IF In(<<"l", "e", "f", "t">>, cmd)
     THEN IF stepper_hint(cmd) /\ ~drive_verb(cmd)
          THEN ParsedMotionCommand("stepper_left", Missing, Missing)
          ELSE ParsedMotionCommand("left", duration_s, Missing)
     ELSE IF In(<<"r", "i", "g", "h", "t">>, cmd)
     THEN IF stepper_hint(cmd) /\ ~drive_verb(cmd)
          THEN ParsedMotionCommand("stepper_right", Missing, Missing)
          ELSE ParsedMotionCommand("right", duration_s, Missing)
     ELSE IF \/ In(<<"b", "a", "c", "k", "w", "a", "r", "d">>, cmd)
             \/ In(<<"b", "a", "c", "k">>, cmd)
             \/ In(<<"r", "e", "v", "e", "r", "s", "e">>, cmd)
     THEN ParsedMotionCommand("backward", duration_s, Missing)
     ELSE IF \/ In(<<"f", "o", "r", "w", "a", "r", "d">>, cmd)
             \/ In(<<"a", "h", "e", "a", "d">>, cmd)
             \/ In(<<"f", "r", "o", "n", "t">>, cmd)
             \/ In(<<"s", "t", "r", "a", "i", "g", "h", "t">>, cmd)
     THEN ParsedMotionCommand("forward", duration_s, Missing)
     ELSE ParsedMotionCommand("unknown", Missing, Missing)

\* the command texts of the model
Text_left == <<"l", "e", "f", "t">>

Text_right == <<"r", "i", "g", "h", "t">>

Text_go_straight_now == <<"g", "o", " ", "s", "t", "r", "a", "i", "g", "h", "t", " ", "n", "o", "w">>

Text_go_back == <<"G", "o", " ", "b", "a", "c", "k", " ">>

Text_follow == <<"f", "o", "l", "l", "o", "w">>

Text_follow_10_cm == <<"f", "o", "l", "l", "o", "w", " ", "a", "t", " ", "1", "0", " ", "c", "m">>

Text_stop_now == <<"s", "t", "o", "p", " ", "n", "o", "w">>

Text_steer_left == <<"s", "t", "e", "e", "r", " ", "l", "e", "f", "t">>

Text_steer_right == <<"s", "t", "e", "e", "r", " ", "r", "i", "g", "h", "t">>

Text_center_steering == <<"c", "e", "n", "t", "e", "r", " ", "s", "t", "e", "e", "r", "i", "n", "g">>

Text_dance == <<"d", "a", "n", "c", "e">>

Text_forward_1_s == <<"f", "o", "r", "w", "a", "r", "d", " ", "1", " ", "s">>

CommandTexts ==
  {Text_left,
   Text_right,
   Text_go_straight_now,
   Text_go_back,
   Text_follow,
   Text_follow_10_cm,
   Text_stop_now,
   Text_steer_left,
   Text_steer_right,
   Text_center_steering,
   Text_dance,
   Text_forward_1_s}

\* parse_motion_command on the command texts of the model, worked out once
ParsedTexts == [text \in CommandTexts |-> parse_motion_command(text)]

\* the words the texts given to the parser are made of
Vocabulary ==
  {<<"s", "t", "o", "p">>,
   <<"h", "a", "l", "t">>,
   <<"c", "a", "n", "c", "e", "l">>,
   <<"f", "r", "e", "e", "z", "e">>,
   <<"F", "o", "l", "l", "o", "w">>,
   <<"c", "e", "n", "t", "e", "r">>,
   <<"s", "t", "e", "e", "r">>,
   <<"l", "e", "f", "t">>,
   <<"r", "i", "g", "h", "t">>,
   <<"b", "a", "c", "k">>,
   <<"f", "o", "r", "w", "a", "r", "d">>,
   <<"g", "o">>,
   <<"d", "a", "n", "c", "e">>}

\* the words joined by single spaces
RECURSIVE Join(_)
Join(words) ==
  IF words = <<>> THEN <<>>
  ELSE IF Len(words) = 1 THEN words[1]
  ELSE words[1] \o <<" ">> \o Join(Tail(words))

\* the texts given to the parser: up to MaxWords words, the empty text, and
\* a text of blanks
ParserTexts ==
  {Join(ws) : ws \in UNION {[1..n -> Vocabulary] : n \in 0..MaxWords}} \cup {<<" ", " ">>}

\* ------------------------------------------------------------- the agent
\* str.split(): the words of a text, cut at the blanks
RECURSIVE split(_)
split(text) ==
  LET t == strip(text)
      blanks == {i \in 1..Len(t) : t[i] = " "}
  IN IF t = <<>> THEN <<>>
     ELSE IF blanks = {} THEN <<t>>
     ELSE LET b == CHOOSE i \in blanks : \A j \in blanks : i <= j
          IN <<SubSeq(t, 1, b - 1)>> \o split(SubSeq(t, b + 1, Len(t)))

\* _normalize_text of nlu.py
_normalize_text(text) == Join(split(lower(strip(text))))

\* Python's None for a command, which `if not command` treats as ""
NoCommand == <<>>

MOVEMENT_COMMANDS ==
  {<<"m", "o", "v", "e">>, <<"t", "u", "r", "n">>, <<"r", "o", "t", "a", "t", "e">>,
      <<"g", "o">>, <<"b", "a", "c", "k">>, <<"f", "o", "r", "w", "a", "r", "d">>,
      <<"f", "o", "l", "l", "o", "w">>}

FORBIDDEN_TOKENS ==
  {<<"s", "h", "u", "t", "d", "o", "w", "n">>, <<"r", "e", "b", "o", "o", "t">>,
      <<"f", "o", "r", "m", "a", "t">>, <<"d", "e", "l", "e", "t", "e">>, <<"r", "m">>,
      <<"p", "o", "w", "e", "r", "o", "f", "f">>}

can_execute(command_name, trust_level, min_move) ==
  IF command_name \in MOVEMENT_COMMANDS THEN trust_level >= min_move ELSE TRUE

normalize_command_name(command) ==
  IF command = NoCommand \/ strip(command) = <<>> THEN <<>>
  ELSE lower(split(strip(command))[1])

\* PolicyResult.allowed of evaluate_command
evaluate_command(command, trust_level, min_move) ==
  IF command = NoCommand THEN TRUE
  ELSE IF \E tok \in FORBIDDEN_TOKENS : In(tok, lower(command)) THEN FALSE
  ELSE can_execute(normalize_command_name(command), trust_level, min_move)

\* AgentDecision: type, command and the fast path that made it ("" for none)
AgentDecision(type, command, fast_path) ==
  [type |-> type, command |-> command, fast_path |-> fast_path]

\* quick_rule_decision returned None
NoDecision == AgentDecision("none", NoCommand, "")

\* quick_rule_decision of nlu.py
quick_rule_decision(user_text) ==
  LET t == _normalize_text(user_text)
      any(toks) == \E tok \in toks : In(tok, t)
  IN IF t = <<>> THEN NoDecision
     ELSE IF t \in {<<"h", "i">>, <<"h", "e", "l", "l", "o">>, <<"h", "e", "y">>,
         <<"h", "e", "l", "l", "o", " ", "b", "o", "t", "r", "o", "n", "k", "a">>,
         <<"h", "i", " ", "b", "o", "t", "r", "o", "n", "k", "a">>,
         <<"h", "e", "y", " ", "b", "o", "t", "r", "o", "n", "k", "a">>}
     THEN AgentDecision("chat", NoCommand, "greeting")
     ELSE IF any({<<"y", "o", "u", "r", " ", "n", "a", "m", "e">>,
         <<"w", "h", "o", " ", "a", "r", "e", " ", "y", "o", "u">>})
     THEN AgentDecision("chat", NoCommand, "identity")
     ELSE IF any({<<"t", "h", "a", "n", "k", " ", "y", "o", "u">>,
         <<"t", "h", "a", "n", "k", "s">>, <<"t", "h", "x">>})
     THEN AgentDecision("chat", NoCommand, "thanks")
     ELSE IF any(
         {<<"w", "h", "a", "t", " ", "t", "i", "m", "e", " ", "i", "s", " ", "i", "t">>,
         <<"w", "h", "a", "t", "'", "s", " ", "t", "h", "e", " ", "t", "i", "m", "e">>,
         <<"t", "e", "l", "l", " ", "m", "e", " ", "t", "h", "e", " ", "t", "i", "m", "e">>,
         <<"c", "u", "r", "r", "e", "n", "t", " ", "t", "i", "m", "e">>,
         <<"t", "i", "m", "e", " ", "n", "o", "w">>})
     THEN AgentDecision("chat", NoCommand, "time")
     ELSE IF any({<<"s", "t", "a", "t", "u", "s">>,
         <<"s", "h", "o", "w", " ", "s", "t", "a", "t", "u", "s">>,
         <<"h", "o", "w", " ", "a", "r", "e", " ", "y", "o", "u", " ", "n", "o", "w">>})
     THEN AgentDecision("chat", NoCommand, "status")
     ELSE IF any({<<"b", "e", "e", "p">>, <<"c", "h", "i", "r", "p">>, <<"b", "u", "z", "z">>})
     THEN AgentDecision("command", <<"b", "e", "e", "p">>, "beep")
     ELSE IF any({<<"s", "t", "o", "p">>, <<"h", "a", "l", "t">>, <<"c", "a", "n", "c", "e", "l">>})
     THEN AgentDecision("command", <<"s", "t", "o", "p">>, "motion_stop")
     ELSE IF any({<<"f", "o", "l", "l", "o", "w">>})
     THEN AgentDecision("command", t, "motion_follow")
     ELSE IF any({<<"f", "o", "r", "w", "a", "r", "d">>, <<"a", "h", "e", "a", "d">>,
         <<"s", "t", "r", "a", "i", "g", "h", "t">>})
     THEN AgentDecision("command", t, "motion_forward")
     ELSE IF any({<<"b", "a", "c", "k", "w", "a", "r", "d">>,
         <<"g", "o", " ", "b", "a", "c", "k">>, <<"r", "e", "v", "e", "r", "s", "e">>,
         <<"m", "o", "v", "e", " ", "b", "a", "c", "k">>})
     THEN AgentDecision("command", t, "motion_backward")
     ELSE IF In(<<"l", "e", "f", "t">>, t) /\ any({<<"t", "u", "r", "n">>, <<"g", "o">>,
         <<"m", "o", "v", "e">>, <<"l", "e", "f", "t">>})
     THEN AgentDecision("command", t, "motion_left")
     ELSE IF In(<<"r", "i", "g", "h", "t">>, t) /\ any({<<"t", "u", "r", "n">>, <<"g", "o">>,
         <<"m", "o", "v", "e">>, <<"r", "i", "g", "h", "t">>})
     THEN AgentDecision("command", t, "motion_right")
     ELSE NoDecision

\* _build_denied_decision
_build_denied_decision == AgentDecision("chat", NoCommand, "")

\* AgentWorkerConfig.min_move_trust
min_move_trust == 2

\* TrustLevel.value
trust_value(trust) ==
  CASE trust = "UNKNOWN" -> 0
    [] trust = "GUEST" -> 1
    [] trust = "FRIEND" -> 2
    [] trust = "OWNER" -> 3

\* the types _emit_reply publishes for a decision, in order
_emit_reply(decision) ==
  <<"agent_reply", "tts_request">>
  \o IF decision.command = NoCommand THEN <<>>
     ELSE IF normalize_command_name(decision.command)
               \in {<<"b", "e", "e", "p">>, <<"b", "u", "z", "z">>, <<"c", "h", "i", "r", "p">>}
     THEN <<"buzzer_countdown">>
     ELSE <<"motion_command">>

\* the command of the motion_command _emit_reply publishes, if it does
motion_command_of(decision) ==
  IF "motion_command" \in {_emit_reply(decision)[i] : i \in 1..Len(_emit_reply(decision))}
  THEN decision.command
  ELSE NoCommand

\* the decision after the policy: a denied one if evaluate_command refuses
after_policy(decision, trust_level) ==
  IF evaluate_command(decision.command, trust_level, min_move_trust)
  THEN decision
  ELSE _build_denied_decision

\* what AgentWorker.run did with an stt_text: the text, the trust level it
\* read, the decision it emitted and the types it published, in order
Answer(user_text, trust_level, decision, types) ==
  [user_text |-> user_text, trust_level |-> trust_level,
   decision |-> decision, types |-> types,
   motion_command |-> motion_command_of(decision)]

\* before AgentWorker.run took an stt_text
NoAnswer == Answer(<<>>, 0, NoDecision, <<>>)

\* one pass of AgentWorker.run for a text that carries no admin intent:
\* the fast path if quick_rule_decision has a decision, else the filler,
\* ask_llm and parse_agent_reply, whose command is llm_command; raised when
\* ask_llm raises
agent_pass(a, user_text, trust_level, llm_command, raised) ==
  LET fast_decision == quick_rule_decision(user_text)
      filler == IF a.enable_filler_speech THEN <<"tts_request">> ELSE <<>>
      llm_decision ==
        after_policy(AgentDecision(IF llm_command = NoCommand THEN "chat"
                                   ELSE "command", llm_command, ""),
                     trust_level)
  IN IF fast_decision # NoDecision
     THEN Answer(user_text, trust_level, after_policy(fast_decision, trust_level),
                 _emit_reply(after_policy(fast_decision, trust_level))
                 \o <<"llm_thinking">>)
     ELSE IF raised
     THEN Answer(user_text, trust_level, NoDecision,
                 filler \o <<"llm_thinking", "agent_error", "llm_thinking">>)
     ELSE Answer(user_text, trust_level, llm_decision,
                 filler \o <<"llm_thinking">> \o _emit_reply(llm_decision)
                 \o <<"llm_thinking">>)

\* MotionControlConfig: durations in clock ticks (move 0.75 s, turn 0.5 s,
\* pulse and replan interval 0.25 s), the tolerance in half centimetres
MotionControlConfig(follow_tolerance_cm) ==
  [stepper_steps_per_90deg |-> 50,
   move_duration_s |-> 3,
   turn_duration_s |-> 2,
   follow_tolerance_cm |-> follow_tolerance_cm,
   follow_pulse_s |-> 1,
   follow_replan_interval_s |-> 1]

\* the follow tolerances a configuration of the model may carry: 0 cm and 2 cm
FollowTolerances == {0, 4}

\* 0.5 cm, the least tolerance _tick_follow works with
MinTolerance == 1

\* 0.05 s, the least pulse and replan interval of _tick_follow: on the grid
\* of the clock, the least positive duration
MinInterval == 1

\* one call the engine made on the stepper, the wheels or the bus
Effect(dev, op, n) == [dev |-> dev, op |-> op, n |-> n]

\* before _tick_follow started a pulse: no pulse, no follow command since
NoPulse ==
  [prev |-> Missing, at |-> Missing, direction |-> "None", error_cm |-> 0,
   commanded |-> FALSE, reentered |-> FALSE]

\* MotionControlThread after __init__, with no call made yet
MotionControlThread(config) ==
  [config |-> config,
   _latest_distance_cm |-> Missing,
   _follow_enabled |-> FALSE,
   _follow_target_cm |-> Missing,
   _last_follow_action_ts |-> 0,
   _drive_direction |-> "None",
   _drive_until |-> 0,
   _is_moving |-> FALSE,
   _stepper_side |-> 0,
   calls |-> <<>>]

\* _set_motion_state that publishes on every call
_set_motion_state_every_call(e, moving) ==
  [e EXCEPT !._is_moving = moving,
            !.calls = Append(@, Effect("bus", "motion_state", IF moving THEN 1 ELSE 0))]

_set_motion_state(e, moving) ==
  IF moving = e._is_moving THEN e
  ELSE [e EXCEPT !._is_moving = moving,
                 !.calls = Append(@, Effect("bus", "motion_state",
                                            IF moving THEN 1 ELSE 0))]

_stop_drive(e) ==
  _set_motion_state(
    [e EXCEPT !.calls = Append(@, Effect("wheels", "stop", 0)),
              !._drive_direction = "None",
              !._drive_until = 0],
    FALSE)

\* the wheels call _start_drive makes for a direction
WheelsCall(direction) ==
  CASE direction = "forward" -> "forward"
    [] direction = "backward" -> "backward"
    [] direction = "left" -> "spin_left"
    [] direction = "right" -> "spin_right"

_start_drive(e, direction, duration_s, t) ==
  IF direction \in {"forward", "backward", "left", "right"}
  THEN _set_motion_state(
         [e EXCEPT !.calls = Append(@, Effect("wheels", WheelsCall(direction), 0)),
                   !._drive_direction = direction,
                   !._drive_until = t + Max(0, duration_s)],
         TRUE)
  ELSE _stop_drive(e)

Min(a, b) == IF a <= b THEN a ELSE b

\* _set_stepper_side that steps on every call, by the side asked for
_set_stepper_side_unclamped(e, side) ==
  LET steps_per_side == Max(1, e.config.stepper_steps_per_90deg)
  IN [e EXCEPT !.calls = Append(@, Effect("stepper", "step", side * steps_per_side)),
               !._stepper_side = Max(0 - 1, Min(1, @ + side))]

_set_stepper_side(e, side) ==
  LET clamped == Max(0 - 1, Min(1, side))
      steps_per_side == Max(1, e.config.stepper_steps_per_90deg)
      delta_steps == (clamped - e._stepper_side) * steps_per_side
  IN IF clamped = e._stepper_side THEN e
     ELSE [e EXCEPT !.calls = Append(@, Effect("stepper", "step", delta_steps)),
                    !._stepper_side = clamped]

\* a (Python None or number) if it is given, else b
OrElse(a, b) == IF a # Missing THEN a ELSE b

\* the manual branches with the wheels started before the steering is centred
execute_manual_drive_first(e, parsed, t) ==
  IF parsed.action \in {"forward", "backward"}
  THEN _set_stepper_side(
         _start_drive(e, parsed.action,
                      OrElse(parsed.duration_s, Max(0, e.config.move_duration_s)), t),
         0)
  ELSE CASE parsed.action = "stepper_left" -> _set_stepper_side(e, 0 - 1)
         [] parsed.action = "stepper_right" -> _set_stepper_side(e, 1)
         [] parsed.action = "stepper_center" -> _set_stepper_side(e, 0)
         [] parsed.action \in {"left", "right"} ->
              _start_drive(
                _set_stepper_side(e, IF parsed.action = "left" THEN 0 - 1 ELSE 1),
                parsed.action,
                OrElse(parsed.duration_s, Max(0, e.config.turn_duration_s)), t)
         [] OTHER -> e

\* the manual branches of execute_command_text, follow mode already left
execute_manual(e, parsed, t) ==
  CASE parsed.action = "stepper_left" -> _set_stepper_side(e, 0 - 1)
    [] parsed.action = "stepper_right" -> _set_stepper_side(e, 1)
    [] parsed.action = "stepper_center" -> _set_stepper_side(e, 0)
    [] parsed.action \in {"left", "right"} ->
         _start_drive(
           _set_stepper_side(e, IF parsed.action = "left" THEN 0 - 1 ELSE 1),
           parsed.action,
           OrElse(parsed.duration_s, Max(0, e.config.turn_duration_s)), t)
    [] parsed.action \in {"forward", "backward"} ->
         _start_drive(
           _set_stepper_side(e, 0),
           parsed.action,
           OrElse(parsed.duration_s, Max(0, e.config.move_duration_s)), t)
    [] OTHER -> e

\* the follow branch with the drive stopped after follow mode is entered and
\* the steering left where it is
execute_follow_no_recenter(e, parsed) ==
  _stop_drive([e EXCEPT
        !._follow_enabled = TRUE,
        !._follow_target_cm = OrElse(parsed.follow_target_cm, e._latest_distance_cm),
        !._last_follow_action_ts = 0])

\* the follow branch of execute_command_text
execute_follow(e, parsed) ==
  LET centred == _set_stepper_side(_stop_drive(e), 0)
  IN [centred EXCEPT
        !._follow_enabled = TRUE,
        !._follow_target_cm = OrElse(parsed.follow_target_cm, e._latest_distance_cm),
        !._last_follow_action_ts = 0]

\* execute_command_text with follow mode left on by the manual commands
execute_command_text_keeps_follow(e, command_text, t) ==
  LET parsed == ParsedTexts[command_text]
  IN CASE parsed.action = "unknown" -> e
       [] parsed.action = "stop" ->
            _stop_drive([e EXCEPT !._follow_enabled = FALSE,
                                  !._follow_target_cm = Missing])
       [] parsed.action = "follow" -> execute_follow(e, parsed)
       [] OTHER -> execute_manual(e, parsed, t)

\* execute_command_text at clock value t
execute_command_text(e, command_text, t) ==
  LET parsed == ParsedTexts[command_text]
  IN CASE parsed.action = "unknown" -> e
       [] parsed.action = "stop" ->
            _stop_drive([e EXCEPT !._follow_enabled = FALSE,
                                  !._follow_target_cm = Missing])
       [] parsed.action = "follow" -> execute_follow(e, parsed)
       [] OTHER ->
            execute_manual([e EXCEPT !._follow_enabled = FALSE,
                                     !._follow_target_cm = Missing], parsed, t)

_handle_distance_message(e, content) ==
  IF LoadsOrGetRaises(content) THEN e
  ELSE LET value == Get(content, "value", None)
       IN IF IsNumber(value)
          THEN [e EXCEPT !._latest_distance_cm = PyFloat(value)]
          ELSE e

Abs(x) == IF x < 0 THEN 0 - x ELSE x

\* _tick_follow with the configured tolerance taken as it is
_tick_follow_no_floor(e, t) ==
  IF ~e._follow_enabled \/ e._drive_direction # "None" THEN e
  ELSE IF e._follow_target_cm = Missing
  THEN IF e._latest_distance_cm # Missing
       THEN [e EXCEPT !._follow_target_cm = e._latest_distance_cm]
       ELSE e
  ELSE IF e._latest_distance_cm = Missing THEN e
  ELSE LET error_cm == e._latest_distance_cm - e._follow_target_cm
       IN IF Abs(error_cm) <= e.config.follow_tolerance_cm THEN e
          ELSE IF (t - e._last_follow_action_ts)
                    < Max(MinInterval, e.config.follow_replan_interval_s)
          THEN e
          ELSE [_start_drive(e, IF error_cm > 0 THEN "forward" ELSE "backward",
                             Max(MinInterval, e.config.follow_pulse_s), t)
                  EXCEPT !._last_follow_action_ts = t]

\* _tick_follow without the replan interval test
_tick_follow_no_replan(e, t) ==
  IF ~e._follow_enabled \/ e._drive_direction # "None" THEN e
  ELSE IF e._follow_target_cm = Missing
  THEN IF e._latest_distance_cm # Missing
       THEN [e EXCEPT !._follow_target_cm = e._latest_distance_cm]
       ELSE e
  ELSE IF e._latest_distance_cm = Missing THEN e
  ELSE LET error_cm == e._latest_distance_cm - e._follow_target_cm
           tolerance_cm == Max(MinTolerance, e.config.follow_tolerance_cm)
       IN IF Abs(error_cm) <= tolerance_cm THEN e
          ELSE [_start_drive(e, IF error_cm > 0 THEN "forward" ELSE "backward",
                             Max(MinInterval, e.config.follow_pulse_s), t)
                  EXCEPT !._last_follow_action_ts = t]

_tick_follow(e, t) ==
  IF ~e._follow_enabled \/ e._drive_direction # "None" THEN e
  ELSE IF e._follow_target_cm = Missing
  THEN IF e._latest_distance_cm # Missing
       THEN [e EXCEPT !._follow_target_cm = e._latest_distance_cm]
       ELSE e
  ELSE IF e._latest_distance_cm = Missing THEN e
  ELSE LET error_cm == e._latest_distance_cm - e._follow_target_cm
           tolerance_cm == Max(MinTolerance, e.config.follow_tolerance_cm)
       IN IF Abs(error_cm) <= tolerance_cm THEN e
          ELSE IF (t - e._last_follow_action_ts)
                    < Max(MinInterval, e.config.follow_replan_interval_s)
          THEN e
          ELSE [_start_drive(e, IF error_cm > 0 THEN "forward" ELSE "backward",
                             Max(MinInterval, e.config.follow_pulse_s), t)
                  EXCEPT !._last_follow_action_ts = t]

\* _tick without the deadline test
_tick_follow_only(e, t) == _tick_follow(e, t)

_tick(e, t) ==
  _tick_follow(
    IF e._drive_direction # "None" /\ t >= e._drive_until THEN _stop_drive(e) ELSE e,
    t)

\* the four release steps of _shutdown_hardware, in the order of the code
ShutdownSteps == <<"_stop_drive", "stepper.release", "wheels.close", "stepper.close">>

\* the hardware call a release step makes first
ReleaseCall(step) ==
  CASE step = "_stop_drive" -> Effect("wheels", "stop", 0)
    [] step = "stepper.release" -> Effect("stepper", "release", 0)
    [] step = "wheels.close" -> Effect("wheels", "close", 0)
    [] step = "stepper.close" -> Effect("stepper", "close", 0)

\* one release step: the call is made; when it raises, the rest of the step
\* is skipped
ReleaseStep(e, step, fails) ==
  IF step \in fails THEN [e EXCEPT !.calls = Append(@, ReleaseCall(step))]
  ELSE IF step = "_stop_drive" THEN _stop_drive(e)
  ELSE [e EXCEPT !.calls = Append(@, ReleaseCall(step))]

\* _shutdown_hardware with a single try around the four steps
RECURSIVE _shutdown_hardware_one_try(_, _)
_shutdown_hardware_one_try(r, fails) ==
  IF r.next > Len(ShutdownSteps) \/ r.raised THEN r
  ELSE _shutdown_hardware_one_try(
         [e |-> ReleaseStep(r.e, ShutdownSteps[r.next], fails),
          next |-> r.next + 1,
          raised |-> ShutdownSteps[r.next] \in fails],
         fails)

\* _shutdown_hardware from step r.next on, the calls of fails raising: every
\* step has its own try, and except Exception swallows what it raises
RECURSIVE _shutdown_hardware(_, _)
_shutdown_hardware(r, fails) ==
  IF r.next > Len(ShutdownSteps) THEN r
  ELSE _shutdown_hardware(
         [e |-> ReleaseStep(r.e, ShutdownSteps[r.next], fails),
          next |-> r.next + 1,
          raised |-> FALSE],
         fails)

\* MotionControlThread.run: the running flag, where run is, whether the loop
\* ended by an exception, the release calls that raised and whether
\* _shutdown_hardware raised
Running ==
  [running |-> TRUE, pc |-> "loop", by_exception |-> FALSE, fails |-> {},
   shutdown_raised |-> FALSE]

\* ------------------------------------------------- the registration flow
\* AgentWorkerConfig: register_timeout_s of 1 s, in clock ticks (the source's
\* default is 18 s)
AgentWorkerConfig == [register_timeout_s |-> 4]

\* max(1.0, ...): the least overall deadline of _wait_for_register_result
MinRegisterTimeout == 4

\* min(0.3, ...): the timeout of one poll of the result inbox, on the grid
\* of the clock
PollTimeout == 1

\* the payload _wait_for_register_result returns when it gives up
TimedOut == Obj2("ok", JBool(FALSE), "error", JStr("registration timed out"))

\* what _wait_for_register_result has returned: nothing yet, or a payload
\* and, of the message it came in, the request that message answers
Returned(content, request) == [content |-> content, request |-> request]
NotReturned == Returned(Unparseable, 0)

\* AgentWorker after start(), its run loop waiting for stt_text;
\* enable_filler_speech is the field of its config, filler_phrases at the
\* default
AgentWorkerWith(enable_filler_speech) ==
  [enable_filler_speech |-> enable_filler_speech,
   running |-> TRUE,
   pc |-> "idle",
   request |-> 0,
   deadline |-> 0,
   poll_until |-> 0,
   returned |-> NotReturned,
   arrived |-> <<>>,
   _register_results |-> <<>>]

\* AgentWorker with the default configuration
AgentWorker == AgentWorkerWith(TRUE)

\* VisionThread after start(), its run loop between two frames
VisionThread == [pc |-> "loop", request |-> 0, _control_inbox |-> <<>>]

\* the payloads VisionThread._handle_register_request publishes: ok or not
RegisterResults == {Obj1("ok", JBool(TRUE)), Obj2("ok", JBool(FALSE), "error", JStr("x"))}

\* json.loads(msg.content) gives a dict
IsDict(content) == content.form = "object"

\* AgentWorker.handle_message and VisionThread.handle_message, the two
\* handlers broadcast_message reaches with a registration message
register_handle_message(a, v, msg) ==
  [agent |-> IF msg.type = "vision_register_result"
             THEN [a EXCEPT !._register_results = Append(@, msg),
                            !.arrived = Append(@, msg)]
             ELSE a,
   vision |-> IF msg.type = "vision_register_request"
              THEN [v EXCEPT !._control_inbox = Append(@, msg)]
              ELSE v]

\* _drain_register_results; arrived keeps every result put in the inbox
\* since the last drain
_drain_register_results(a) ==
  [a EXCEPT !._register_results = <<>>, !.arrived = <<>>]


\* the loop test of _wait_for_register_result passes at t
WaitContinues(a, t) == t < a.deadline /\ a.running

\* one evaluation of the loop test of _wait_for_register_result at t: on to
\* a poll of the inbox, or out of the loop with the failure payload
_wait_check(a, t) ==
  IF WaitContinues(a, t)
  THEN [a EXCEPT !.pc = "get", !.poll_until = t + Min(PollTimeout, a.deadline - t)]
  ELSE [a EXCEPT !.pc = "returned", !.returned = Returned(TimedOut, 0)]


\* _wait_got that returns whatever it dequeued
_wait_got_returns_any(a, msg) ==
  [a EXCEPT !.pc = "returned", !.returned = Returned(msg.content, msg.id)]

\* self._register_results.get returned msg: a dict is returned, anything
\* else is skipped
_wait_got(a, msg) ==
  IF IsDict(msg.content)
  THEN [a EXCEPT !.pc = "returned", !.returned = Returned(msg.content, msg.id)]
  ELSE [a EXCEPT !.pc = "check"]


\* ----------------------------------------------- starting and cancelling
\* the workers whose run loops the cancellation is followed on, in the
\* order ThreadManager.threads holds them
RunLoops ==
  SelectSeq(threads, LAMBDA w : w \in {"AudioIOThread", "STTWorker", "AgentWorker",
                                       "TTSWorker", "MotionControlThread"})
RunWorkers == {RunLoops[i] : i \in 1..Len(RunLoops)}

\* BaseThread after __init__: no thread object, running False; run has not
\* begun. starts counts the calls of start(), spawned the threads started,
\* raised tells whether the last start() raised RuntimeError
BaseThread ==
  [thread |-> "None", running |-> FALSE, pc |-> "new", starts |-> 0, spawned |-> 0,
   raised |-> FALSE]

\* ThreadManager after __init__; next is the worker start_all or stop_all
\* comes to next
ThreadManager == [running |-> FALSE, pc |-> "new", next |-> 0, stopping |-> FALSE]

\* BaseThread.start that does not look at self.thread
start_again(t) ==
  [t EXCEPT !.thread = "Thread", !.running = TRUE, !.pc = "test",
            !.starts = @ + 1, !.spawned = @ + 1, !.raised = FALSE]

\* BaseThread.start
start(t) ==
  IF t.thread # "None"
  THEN [t EXCEPT !.starts = @ + 1, !.raised = TRUE]
  ELSE [t EXCEPT !.thread = "Thread", !.running = TRUE, !.pc = "test",
                 !.starts = @ + 1, !.spawned = @ + 1, !.raised = FALSE]

\* BaseThread.stop
stop(t) == [t EXCEPT !.running = FALSE]

\* a while test that does not read the running flag
while_running_forever(w, t) == [t EXCEPT !.pc = "busy"]

\* while self.running: of the run of worker w. MotionControlThread.run
\* leaves through its finally clause
while_running(w, t) ==
  IF t.running THEN [t EXCEPT !.pc = "busy"]
  ELSE [t EXCEPT !.pc = IF w = "MotionControlThread" THEN "shutdown" ELSE "exited"]

\* AudioIOConfig: the greeting times in clock ticks (20 s, 0.75 s, 4 s)
AudioIOConfig ==
  [greeting_idle_s |-> 80, greeting_delay_s |-> 3, greeting_min_open_s |-> 16]

\* AudioIOThread after __init__, its run loop about to poll
AudioIOThreadWith(config) ==
  [config |-> config,
   greeted_at |-> Missing,
   pc |-> "poll",
   sessions |-> 0,
   _counter |-> 0,
   wav_path |-> "",
   has_speech |-> FALSE,
   _face_present |-> FALSE,
   _last_face_lost_ts |-> Missing,
   _greeted_once |-> FALSE,
   _pending_greeting_due_ts |-> Missing,
   _force_open_until_ts |-> 0]

\* AudioIOThread with the default configuration
AudioIOThread == AudioIOThreadWith(AudioIOConfig)

\* should_greet that lets every rising edge schedule a greeting
should_greet_always(a, t) == TRUE

\* should_greet of handle_message: idle_s is infinite while the face was
\* never lost
should_greet(a, t) ==
  LET idle_long == \/ a._last_face_lost_ts = Missing
                   \/ Max(0, t - a._last_face_lost_ts) >= a.config.greeting_idle_s
  IN ~a._greeted_once \/ idle_long

\* AudioIOThread.handle_message for a message it does not raise on
AudioIOThread_handle_message(a, msg, t) ==
  IF msg.type # "vision_identity" \/ msg.content.form = "unparseable" THEN a
  ELSE LET face_detected == PyBool(Get(msg.content, "face_detected", JBool(FALSE)))
       IN [a EXCEPT
             !._pending_greeting_due_ts =
               IF face_detected /\ ~a._face_present /\ should_greet(a, t)
               THEN t + Max(0, a.config.greeting_delay_s)
               ELSE @,
             !._last_face_lost_ts =
               IF ~face_detected /\ a._face_present THEN t ELSE @,
             !._face_present = face_detected]

\* _next_greeting_text has a greeting to say at t
GreetingDue(a, t) ==
  a._pending_greeting_due_ts # Missing /\ t >= a._pending_greeting_due_ts

\* the object after _next_greeting_text ran at t
_next_greeting_text(a, t) ==
  IF GreetingDue(a, t)
  THEN [a EXCEPT !._pending_greeting_due_ts = Missing,
                 !._greeted_once = TRUE,
                 !._force_open_until_ts = t + Max(0, a.config.greeting_min_open_s),
                 !.greeted_at = t]
  ELSE a

\* _should_force_open_mic on a snapshot of the store
_should_force_open_mic(a, snap, t) ==
  /\ snap.face_present
  /\ t < a._force_open_until_ts
  /\ ~snap.audio.mic_muted
  /\ ~snap.audio.tts_playing
  /\ ~snap.audio.robot_moving
  /\ ~snap.audio.llm_thinking

\* _should_probe_wake_phrase with the muted and busy tests left out
_should_probe_wake_phrase_ignores_busy(snap, t) ==
  /\ ~snap.face_present
  /\ ~(t < snap.audio.wake_override_until_monotonic)
  /\ ~snap.audio.llm_thinking

\* _should_probe_wake_phrase on a snapshot of the store, wake_listen_enabled
\* at its default
_should_probe_wake_phrase(snap, t) ==
  /\ ~snap.face_present
  /\ ~(t < snap.audio.wake_override_until_monotonic)
  /\ ~snap.audio.mic_muted
  /\ ~snap.audio.tts_playing
  /\ ~snap.audio.robot_moving
  /\ ~snap.audio.buzzer_active
  /\ ~snap.audio.llm_thinking

\* _next_wav_path: the path made from the counter after its increment
\* (the millisecond stamp in the name is left out; the counter alone makes
\* the paths of one run differ)
_next_wav_path(counter) == "utt_" \o ToString(counter) \o ".wav"

\* TTSWorker when its run loop waits for a request
TTSWorker == [pc |-> "wait"]

\* the characters of the command strings of the model
Characters(s) ==
  CASE s = "right" -> Text_right
    [] s = "stop now" -> Text_stop_now
    [] s = "follow" -> Text_follow
    [] s = "left" -> Text_left
    [] s = "please" -> <<"p", "l", "e", "a", "s", "e">>
    [] OTHER -> <<>>

\* _handle_motion_message at clock value t
_handle_motion_message(e, content, t) ==
  IF LoadsOrGetRaises(content) THEN e
  ELSE LET command == Characters(Strip(PyStr(Get(content, "command", JStr("")))))
       IN IF command # <<>> THEN execute_command_text(e, command, t) ELSE e

\* the last operation on the engine and, for a command, its text
EngineCall(op, text) == [op |-> op, text |-> text]

\* the distances the ultrasonic sensor reports, in half centimetres
Distances == {18, 20, 21, 24}

\* the payloads of the distance_cm messages the engine drains from its inbox
DistanceContents == {Obj1("value", JNum(d)) : d \in Distances} \cup {Unparseable}

\* the motion_state values among the calls, in the order they were published
RECURSIVE PublishedStates(_)
PublishedStates(calls) ==
  IF calls = <<>> THEN <<>>
  ELSE IF Head(calls).dev = "bus"
       THEN <<Head(calls).n = 1>> \o PublishedStates(Tail(calls))
       ELSE PublishedStates(Tail(calls))

\* the value of the last motion_state published, after these calls
ReportedAfter(before, calls) ==
  LET pubs == PublishedStates(calls)
  IN IF pubs = <<>> THEN before
     ELSE IF pubs[Len(pubs)] THEN "true" ELSE "false"

\* ------------------------------------------------- voice-activity sessions
\* max(0.2, ...): the least max_record_s and min_open_s, in tenths of a second
MinRecord == 2

\* VADConfig, times in tenths of a second, one frame a tenth
VADConfig ==
  [frame_ms |-> 1,
   silence_ms |-> 2,
   min_speech_ms |-> 1,
   min_open_s |-> 4,
   max_record_s |-> 6]

\* the configurations record_utterance is called with: the normal one, a
\* wake probe with a shorter opening, and one whose min_open_s is under the
\* 0.2 s floor
VADConfigs ==
  {VADConfig,
   [VADConfig EXCEPT !.min_open_s = 3, !.max_record_s = 5],
   [VADConfig EXCEPT !.min_open_s = 1, !.silence_ms = 1]}

\* the locals of record_utterance before its loop; first_speech_idx and
\* last_speech_idx are -1 for None
Recording(cfg) ==
  [pc |-> "idle",
   cfg |-> cfg,
   frames |-> <<>>,
   first_speech_idx |-> -1,
   last_speech_idx |-> -1,
   speech_frames |-> 0,
   trailing_silence_ms |-> 0,
   speech_started |-> FALSE,
   elapsed |-> 0,
   short_read |-> FALSE,
   returned |-> FALSE]

\* the locals after lines 116-128 ran on a frame, elapsed read dt later
frame_read(r, is_speech, dt) ==
  LET frame_idx == Len(r.frames)
  IN [r EXCEPT
        !.frames = Append(@, is_speech),
        !.speech_frames = IF is_speech THEN @ + 1 ELSE @,
        !.trailing_silence_ms =
           IF is_speech THEN 0
           ELSE IF r.speech_started THEN @ + r.cfg.frame_ms ELSE @,
        !.speech_started = is_speech \/ @,
        !.first_speech_idx = IF is_speech /\ @ = -1 THEN frame_idx ELSE @,
        !.last_speech_idx = IF is_speech THEN frame_idx ELSE @,
        !.elapsed = @ + dt]

\* the loop tests without the max_record_s one
loop_breaks_without_max(r) ==
  /\ r.elapsed >= Max(MinRecord, r.cfg.min_open_s)
  /\ \/ r.speech_started /\ r.trailing_silence_ms >= r.cfg.silence_ms
     \/ ~r.speech_started

\* the tests at the end of the loop body, lines 130-138: one of the breaks
\* is taken
loop_breaks(r) ==
  \/ r.elapsed >= Max(MinRecord, r.cfg.max_record_s)
  \/ /\ r.elapsed >= Max(MinRecord, r.cfg.min_open_s)
     /\ \/ r.speech_started /\ r.trailing_silence_ms >= r.cfg.silence_ms
        \/ ~r.speech_started

\* what record_utterance returns after the loop, lines 140-155 (a frame that
\* was read is never shorter than fbytes, so the clipped audio never is)
speech_found(r) ==
  ~(\/ r.speech_frames < Max(1, r.cfg.min_speech_ms \div Max(1, r.cfg.frame_ms))
    \/ r.first_speech_idx = -1
    \/ r.last_speech_idx = -1)

\* ------------------------------------------------- the transcription worker
\* max(0.5, ...): the shortest wake duration STTWorker declares, in ticks
MinWakeDuration == 2
\* max(1.0, stt_ms / 1000.0): the least latency added, in ticks
MinLatency == 4

\* STTWorkerConfig(): 12 s and 4 s in ticks
STTWorkerConfig ==
  [min_text_chars |-> 2,
   delete_wav_after_stt |-> TRUE,
   wake_open_s |-> 48,
   wake_candidate_max_age_s |-> 16]

\* the configurations the worker is run with: the files kept or deleted, the
\* wake window at its default or negative, the staleness bound one tick
STTWorkerConfigs ==
  {[STTWorkerConfig EXCEPT !.delete_wav_after_stt = d,
                           !.wake_open_s = w,
                           !.wake_candidate_max_age_s = 1] :
     d \in BOOLEAN, w \in {-4, 48}}

\* STTWorker after __init__; 0 stands for None in the fields that hold a
\* message, "" for None in wav_path. taken, replaced, transcribed and
\* detected record what was done with each wake candidate.
STTWorker(config) ==
  [config |-> config,
   _normal_inbox |-> <<>>,
   _latest_wake |-> 0,
   handler |-> "idle",
   stale |-> 0,
   pc |-> "loop",
   message |-> 0,
   wav_path |-> "",
   stt_started |-> 0,
   taken |-> <<>>,
   replaced |-> {},
   transcribed |-> {},
   detected |-> {}]

\* Message(sender, type, content, sent_at=time.time())
Sent(msg, t) ==
  [id |-> msg.id, sender |-> msg.sender, type |-> msg.type,
   content |-> msg.content, sent_at |-> t]

\* the texts transcribe returns in the model, stripped
Transcripts == {"a", "hello botronka", "turn left", "hello how are you"}

\* re.findall(r"[a-zA-Z']+", text.lower()), for the texts of this model
Words(text) ==
  CASE text = "a" -> <<"a">>
    [] text = "hello botronka" -> <<"hello", "botronka">>
    [] text = "hey" -> <<"hey">>
    [] text = "wake up betronka" -> <<"wake", "up", "betronka">>
    [] text = "turn left" -> <<"turn", "left">>
    [] text = "hello how are you" -> <<"hello", "how", "are", "you">>
    [] text = "(noise)" -> <<"noise">>
    [] OTHER -> <<>>

\* the tokens whose SequenceMatcher ratio to botronka or biedronka is at
\* least 0.74 (betronka: 14/16)
NameLike == {"botronka", "biedronka", "betronka"}

\* is_wake_phrase, for the texts of this model
is_wake_phrase(text) ==
  LET words == Words(text)
      has_name == \E i \in 1..Len(words) : words[i] \in NameLike
      has_greeting == \E i \in 1..Len(words) : words[i] \in {"hi", "hello", "hey"}
      has_listen_intent == \E i \in 1..Len(words) : words[i] \in {"wake", "listen"}
  IN IF text = "" THEN FALSE
     ELSE IF text = "(noise)" THEN FALSE
     ELSE \/ has_name /\ (has_greeting \/ has_listen_intent)
          \/ has_greeting /\ Len(words) <= 2

\* _wav_path_from_message, "" for None
_wav_path_from_message(msg) ==
  IF LoadsOrGetRaises(msg.content) THEN ""
  ELSE Strip(PyStr(Get(msg.content, "wav_path", JStr(""))))

\* the files left by _delete_wav_safe(path): unlink(missing_ok=True)
_delete_wav_safe(fs, path) == IF path = "" THEN fs ELSE fs \ {path}

\* _pop_latest_wake that leaves the slot as it was
_pop_latest_wake_keeps_slot(w) == w

\* the worker after _pop_latest_wake; what it returned was w._latest_wake
_pop_latest_wake(w) == [w EXCEPT !._latest_wake = 0]

\* STTWorker.handle_message up to the release of _wake_lock
STTWorker_handle_message(w, msg) ==
  IF msg.type = "audio_utterance"
  THEN [w EXCEPT !._normal_inbox = Append(@, msg.id)]
  ELSE IF msg.type = "audio_wake_candidate"
  THEN [w EXCEPT !._latest_wake = msg.id,
                 !.stale = w._latest_wake,
                 !.handler = IF w._latest_wake # 0 THEN "delete" ELSE "idle",
                 !.replaced = IF w._latest_wake # 0 THEN @ \cup {w._latest_wake} ELSE @]
  ELSE w

\* the age test of run that never finds a candidate stale
stale_wake_candidate_never(config, message, t) == FALSE

\* age_s > max(0.1, wake_candidate_max_age_s); 0.1 s is less than a tick, so
\* a whole number of ticks exceeds it when it is at least 1
stale_wake_candidate(config, message, t) ==
  LET age_s == Max(0, t - message.sent_at)
  IN IF config.wake_candidate_max_age_s >= 1
     THEN age_s > config.wake_candidate_max_age_s
     ELSE age_s >= 1

\* the wake duration without the transcription latency
stt_wake_duration_s_without_latency(config, stt_ticks) ==
  Max(MinWakeDuration, config.wake_open_s)

\* wake_duration_s of STTWorker.run, stt_ms / 1000.0 given in ticks
stt_wake_duration_s(config, stt_ticks) ==
  Max(MinWakeDuration, config.wake_open_s + Max(MinLatency, stt_ticks))

\* the finally block of one pass of STTWorker.run
stt_finally(w, fs) ==
  IF w.config.delete_wav_after_stt /\ w.wav_path # ""
  THEN _delete_wav_safe(fs, w.wav_path)
  ELSE fs

\* ----------------------------------------------------------------- actions
\* the program after construction, the engine configured with tolerance tol
\* the transcription worker with stt_config, the capture worker with
\* audio_config
InitAll(motion_config, stt_config, audio_config, enable_filler_speech) ==
  /\ state = SharedRuntimeState
  /\ now = 0
  /\ last = Call("init", FALSE, FALSE)
  /\ wake = NoWake
  /\ twin = SharedRuntimeState
  /\ queue = <<>>
  /\ pc = "idle"
  /\ cur = NoMsg
  /\ idx = 0
  /\ received = [w \in Workers |-> <<>>]
  /\ published = <<>>
  /\ inbox = [w \in Workers |-> <<>>]
  /\ motion = MotionControlThread(motion_config)
  /\ mcall = EngineCall("init", <<>>)
  /\ reported = "none"
  /\ audio = AudioIOThreadWith(audio_config)
  /\ tts = TTSWorker
  /\ life = Running
  /\ agent = AgentWorkerWith(enable_filler_speech)
  /\ vision = VisionThread
  /\ thread = [w \in RunWorkers |-> BaseThread]
  /\ manager = ThreadManager
  /\ parsed_command = ParsedMotionCommand("unknown", Missing, Missing)
  /\ stt = STTWorker(stt_config)
  /\ files = {}
  /\ rec = Recording(VADConfig)
  /\ pulse = NoPulse
  /\ answer = NoAnswer

\* the capture worker configured by default
InitOf(tol, stt_config) ==
  InitAll(MotionControlConfig(tol), stt_config, AudioIOConfig, TRUE)

\* the transcription worker configured by default
InitWith(tol) == InitOf(tol, STTWorkerConfig)

\* the engine configured as the unit tests configure it: 2 cm
Init == InitWith(4)

\* the engine configured with any tolerance of the model
InitMotion == \E tol \in FollowTolerances : InitWith(tol)

\* what replaying one message does to the store
Replay(msg) ==
  /\ state' = apply_message(state, msg, now)
  /\ last' = Call("apply_message", LoadsOrGetRaises(msg.content), FALSE)
  /\ UNCHANGED now
  /\ UNCHANGED <<busVars, engineVars, workerVars, lateVars>>

\* the dispatcher (or a test) replays one message into the store
ApplyMessage(msg) ==
  /\ Replay(msg)
  /\ UNCHANGED <<wake, twin>>

\* the store has no face, no busy flag, no thinking and a mode the microphone
\* can open in
QuietStore(s) ==
  /\ ~s.face_present
  /\ ~s.audio.mic_muted
  /\ ~s.audio.tts_playing
  /\ ~s.audio.robot_moving
  /\ ~s.audio.buzzer_active
  /\ ~s.audio.llm_thinking
  /\ s.audio.mode \in {"IDLE", "ENGAGED"}

\* audio_wake_detected messages whose payload declares a duration
DeclaresDuration(msg) ==
  /\ msg.type = "audio_wake_detected"
  /\ ~LoadsOrGetRaises(msg.content)
  /\ msg.content.obj["duration_s"].t = "num"

\* ApplyMessage, remembering when the last wake event came, the duration it
\* declared and whether the store was quiet; any other message forgets it
ApplyMessageTracked(msg) ==
  /\ Replay(msg)
  /\ wake' = IF DeclaresDuration(msg)
             THEN [armed |-> TRUE, at |-> now,
                   dur |-> msg.content.obj["duration_s"].n,
                   pre_ok |-> QuietStore(state)]
             ELSE NoWake
  /\ UNCHANGED twin

\* a worker asks whether the microphone may open
CanOpenMic ==
  /\ state' = can_open_mic_state(state, now)
  /\ last' = Call("can_open_mic", FALSE, can_open_mic(state, now))
  /\ UNCHANGED <<now, wake, twin, busVars, engineVars, workerVars, lateVars>>

\* a worker takes a snapshot
Snapshot ==
  /\ last' = Call("snapshot", FALSE, FALSE)
  /\ UNCHANGED <<state, now, wake, twin, busVars, engineVars, workerVars, lateVars>>

\* set_audio_mode(mode): the override outside event replay
SetAudioMode(mode) ==
  /\ state' = [state EXCEPT !.audio.mode = mode]
  /\ last' = Call("set_audio_mode", FALSE, FALSE)
  /\ UNCHANGED <<now, wake, twin, busVars, engineVars, workerVars, lateVars>>

\* the monotonic clock advances by a quarter second
Tick ==
  /\ now < MaxClock
  /\ now' = now + 1
  /\ last' = Call("tick", FALSE, FALSE)
  /\ UNCHANGED <<state, wake, twin, busVars, engineVars, workerVars, lateVars>>

\* the store driven by event replay and queries, as time passes
Next ==
  \/ \E msg \in ControlMessages : ApplyMessage(msg)
  \/ CanOpenMic
  \/ Snapshot
  \/ Tick

Spec == Init /\ [][Next]_vars

\* the store with the set_audio_mode override as well
NextOverride ==
  \/ \E msg \in ControlMessages : ApplyMessage(msg)
  \/ \E mode \in AudioMode : SetAudioMode(mode)
  \/ CanOpenMic
  \/ Snapshot
  \/ Tick

SpecOverride == Init /\ [][NextOverride]_vars

\* the store with the history of the last wake event
NextWake ==
  \/ \E msg \in ControlMessages : ApplyMessageTracked(msg)
  \/ CanOpenMic
  \/ Snapshot
  \/ Tick

SpecWake == Init /\ [][NextWake]_vars

\* replay of every message of the model, at one instant
NextReplay ==
  \/ \E msg \in Messages : ApplyMessage(msg)
  \/ Snapshot

SpecReplay == Init /\ [][NextReplay]_vars

\* both runs replay the same message at the same clock value
ApplyMessageBoth(msg) ==
  /\ Replay(msg)
  /\ twin' = apply_message(twin, msg, now)
  /\ UNCHANGED wake

\* a worker of the second run asks whether the microphone may open
TwinCanOpenMic ==
  /\ twin' = can_open_mic_state(twin, now)
  /\ last' = Call("twin_can_open_mic", FALSE, can_open_mic(twin, now))
  /\ UNCHANGED <<state, now, wake, busVars, engineVars, workerVars, lateVars>>

\* two runs of the store on the same messages, each with its own workers
\* polling can_open_mic and snapshot at their own pace
NextTwin ==
  \/ \E msg \in ControlMessages : ApplyMessageBoth(msg)
  \/ CanOpenMic
  \/ TwinCanOpenMic
  \/ Snapshot
  \/ Tick

SpecTwin == Init /\ [][NextTwin]_vars

\* a worker's run loop publishes a message (BaseThread.broadcast_message)
Publish(m) ==
  /\ PublishedByRunLoops < MaxPublished
  /\ LET msg == BusMsg(Len(published) + 1, m.sender, m.type, m.content)
     IN /\ queue' = Append(queue, msg)
        /\ published' = Append(published, msg)
  /\ UNCHANGED <<pc, cur, idx, received, inbox, storeVars, engineVars,
                 workerVars, lateVars>>

\* ThreadManager.run: queue.get returns the oldest message
DispatcherGet ==
  /\ pc = "idle"
  /\ queue # <<>>
  /\ cur' = Head(queue)
  /\ queue' = Tail(queue)
  /\ idx' = 1
  /\ pc' = "broadcast"
  /\ UNCHANGED <<received, published, inbox, storeVars, engineVars, workerVars, lateVars>>

\* the dispatcher after handle_message of threads[idx] returned
Advance ==
  IF idx = Len(threads)
  THEN pc' = "idle" /\ idx' = 0
  ELSE pc' = "broadcast" /\ idx' = idx + 1

\* ThreadManager.broadcast_message: handle_message of the next worker, on the
\* dispatcher thread; an exception leaves broadcast_message and run
Deliver ==
  /\ pc = "broadcast"
  /\ LET w == threads[idx]
     IN /\ received' = [received EXCEPT ![w] = Append(@, cur.id)]
        /\ IF w = "BuzzerThread" /\ BuzzerPlaysPattern(cur)
           THEN LET msg == BusMsg(Len(published) + 1, w, "buzzer_state",
                                  Obj1("active", JBool(TRUE)))
                IN /\ queue' = Append(queue, msg)
                   /\ published' = Append(published, msg)
                   /\ pc' = "pattern"
                   /\ UNCHANGED <<idx, inbox>>
           ELSE IF HandlerRaises(w, cur)
           THEN /\ pc' = "crashed"
                /\ UNCHANGED <<queue, published, idx, inbox>>
           ELSE /\ inbox' = [inbox EXCEPT ![w] = handle_message(w, cur, @)]
                /\ Advance
                /\ UNCHANGED <<queue, published>>
  /\ audio' = IF threads[idx] = "AudioIOThread" /\ ~HandlerRaises(threads[idx], cur)
              THEN AudioIOThread_handle_message(audio, cur, now)
              ELSE audio
  /\ UNCHANGED <<cur, tts, storeVars, engineVars, lateVars>>

\* BuzzerThread.handle_message: the pattern ends, by returning or by raising;
\* the finally block publishes buzzer_state false either way
PatternEnds(raised) ==
  /\ pc = "pattern"
  /\ LET msg == BusMsg(Len(published) + 1, "BuzzerThread", "buzzer_state",
                       Obj1("active", JBool(FALSE)))
     IN /\ queue' = Append(queue, msg)
        /\ published' = Append(published, msg)
  /\ IF raised
     THEN pc' = "crashed" /\ UNCHANGED idx
     ELSE Advance
  /\ UNCHANGED <<cur, received, inbox, storeVars, engineVars, workerVars, lateVars>>

\* the bus: run loops publishing, the dispatcher fanning out
NextBus ==
  \/ \E m \in Publishable : Publish(m)
  \/ DispatcherGet
  \/ Deliver
  \/ \E raised \in BOOLEAN : PatternEnds(raised)

SpecBus == Init /\ [][NextBus]_vars

\* the engine runs one operation: its calls are recorded afresh
EngineStep(op, text, after) ==
  /\ motion' = after
  /\ mcall' = EngineCall(op, text)
  /\ reported' = ReportedAfter(reported, after.calls)
  /\ UNCHANGED <<state, now, wake, twin, busVars, workerVars, lateVars>>

\* _handle_motion_message hands a command text to execute_command_text
ExecuteCommandText(text) ==
  /\ EngineStep("execute_command_text", text,
                execute_command_text([motion EXCEPT !.calls = <<>>], text, now))
  /\ last' = Call("execute_command_text", FALSE, FALSE)

\* the run loop drains a distance_cm message from the inbox
HandleDistanceMessage(content) ==
  /\ EngineStep("_handle_distance_message", <<>>,
                _handle_distance_message([motion EXCEPT !.calls = <<>>], content))
  /\ last' = Call("_handle_distance_message", LoadsOrGetRaises(content), FALSE)

\* the run loop calls _tick(now)
MotionTick ==
  /\ EngineStep("_tick", <<>>, _tick([motion EXCEPT !.calls = <<>>], now))
  /\ last' = Call("_tick", FALSE, FALSE)

\* the motion engine driven by commands, distance readings and ticks
NextMotion ==
  \/ \E text \in CommandTexts : ExecuteCommandText(text)
  \/ \E content \in DistanceContents : HandleDistanceMessage(content)
  \/ MotionTick
  \/ Tick

SpecMotion == InitMotion /\ [][NextMotion]_vars

\* --------------------------------------------- the run loop of the engine
\* an operation of the run loop, which run makes only inside its while loop
InLoop(A) == life.pc = "loop" /\ life.running /\ A

\* BaseThread.stop on the engine
Stop ==
  /\ life.running
  /\ life' = [life EXCEPT !.running = FALSE]
  /\ UNCHANGED <<storeVars, busVars, engineVars, workerVars, registerVars,
                 cancelVars, parsed_command, restVars, sttVars>>

\* run leaves its loop, the flag cleared or an exception raised in the loop,
\* and its finally clause calls _shutdown_hardware
RunExits(by_exception, fails) ==
  /\ life.pc = "loop"
  /\ by_exception \/ ~life.running
  /\ LET r == _shutdown_hardware([e |-> [motion EXCEPT !.calls = <<>>],
                                  next |-> 1, raised |-> FALSE], fails)
     IN /\ motion' = r.e
        /\ reported' = ReportedAfter(reported, r.e.calls)
        /\ life' = [life EXCEPT !.pc = "exited",
                                !.by_exception = by_exception,
                                !.fails = fails,
                                !.shutdown_raised = r.raised]
  /\ mcall' = EngineCall("_shutdown_hardware", <<>>)
  /\ last' = Call("_shutdown_hardware", FALSE, FALSE)
  /\ UNCHANGED <<state, now, wake, twin, busVars, workerVars, registerVars,
                 cancelVars, parsed_command, restVars, sttVars>>

\* the texts the run loop is given in this specification
RunTexts == {Text_forward_1_s, Text_follow, Text_steer_left, Text_stop_now}

NextRun ==
  \/ \E text \in RunTexts : InLoop(ExecuteCommandText(text))
  \/ \E content \in DistanceContents : InLoop(HandleDistanceMessage(content))
  \/ InLoop(MotionTick)
  \/ Tick
  \/ Stop
  \/ \E by_exception \in BOOLEAN, fails \in SUBSET {ShutdownSteps[i] : i \in 1..4} :
       RunExits(by_exception, fails)

SpecRun == InitMotion /\ [][NextRun]_vars

\* ------------------------------------------- the registration flow at work
\* AgentWorker.broadcast_message and VisionThread.broadcast_message: id is
\* the number of the registration the message belongs to
RegisterPut(id, sender, type, content) ==
  queue' = Append(queue, BusMsg(id, sender, type, content))

\* _handle_admin_intent, register_guest: the stale results are drained and
\* the countdown is published; buzzer_countdown, which neither
\* AgentWorker.handle_message nor VisionThread.handle_message keeps, is not
\* followed on the queue
StartRegistration ==
  /\ agent.pc = "idle"
  /\ agent.running
  /\ agent.request < MaxRequests
  /\ agent' = [_drain_register_results(agent) EXCEPT
                 !.pc = "countdown",
                 !.request = @ + 1,
                 !.returned = NotReturned]
  /\ UNCHANGED <<storeVars, busVars, engineVars, workerVars, life, vision,
                 cancelVars, parsed_command, restVars, sttVars>>

\* after the countdown sleep the request is published and
\* _wait_for_register_result fixes its deadline, one the clock of the model
\* can reach
PublishRequest ==
  /\ agent.pc = "countdown"
  /\ now + Max(MinRegisterTimeout, AgentWorkerConfig.register_timeout_s)
       <= MaxRegisterClock
  /\ agent' = [agent EXCEPT
                 !.pc = "check",
                 !.deadline =
                   now + Max(MinRegisterTimeout, AgentWorkerConfig.register_timeout_s)]
  /\ RegisterPut(agent.request, "AgentWorker", "vision_register_request", Obj0)
  /\ UNCHANGED <<storeVars, pc, cur, idx, received, published, inbox, engineVars,
                 workerVars, life, vision,
                 cancelVars, parsed_command, restVars, sttVars>>

\* the while test of _wait_for_register_result
WaitCheck ==
  /\ agent.pc = "check"
  /\ agent' = _wait_check(agent, now)
  /\ UNCHANGED <<storeVars, busVars, engineVars, workerVars, life, vision,
                 cancelVars, parsed_command, restVars, sttVars>>

\* self._register_results.get(timeout) returns a message
WaitGet ==
  /\ agent.pc = "get"
  /\ agent._register_results # <<>>
  /\ agent' = _wait_got([agent EXCEPT !._register_results = Tail(@)],
                        Head(agent._register_results))
  /\ UNCHANGED <<storeVars, busVars, engineVars, workerVars, life, vision,
                 cancelVars, parsed_command, restVars, sttVars>>

\* self._register_results.get(timeout) raises Empty
WaitEmpty ==
  /\ agent.pc = "get"
  /\ agent._register_results = <<>>
  /\ now >= agent.poll_until
  /\ agent' = [agent EXCEPT !.pc = "check"]
  /\ UNCHANGED <<storeVars, busVars, engineVars, workerVars, life, vision,
                 cancelVars, parsed_command, restVars, sttVars>>

\* _handle_admin_intent goes on to _emit_reply with the result and run
\* returns to its loop: the locals of the wait are gone
EmitReply ==
  /\ agent.pc = "returned"
  /\ agent' = [agent EXCEPT !.pc = "idle", !.deadline = 0, !.poll_until = 0,
                            !.returned = NotReturned]
  /\ UNCHANGED <<storeVars, busVars, engineVars, workerVars, life, vision,
                 cancelVars, parsed_command, restVars, sttVars>>

\* BaseThread.stop on the agent
AgentStop ==
  /\ agent.running
  /\ agent' = [agent EXCEPT !.running = FALSE]
  /\ UNCHANGED <<storeVars, busVars, engineVars, workerVars, life, vision,
                 cancelVars, parsed_command, restVars, sttVars>>

\* ThreadManager.run takes the next message and broadcast_message hands it
\* to the agent and to the vision thread
RegisterDispatch ==
  /\ queue # <<>>
  /\ queue' = Tail(queue)
  /\ LET r == register_handle_message(agent, vision, Head(queue))
     IN agent' = r.agent /\ vision' = r.vision
  /\ UNCHANGED <<storeVars, pc, cur, idx, received, published, inbox, engineVars,
                 workerVars, life, cancelVars, parsed_command, restVars, sttVars>>

\* VisionThread._drain_control_messages takes a request and
\* _handle_register_request starts on it
VisionTakesRequest ==
  /\ vision.pc = "loop"
  /\ vision._control_inbox # <<>>
  /\ vision' = [vision EXCEPT !.pc = "registering",
                              !.request = Head(vision._control_inbox).id,
                              !._control_inbox = Tail(@)]
  /\ UNCHANGED <<storeVars, busVars, engineVars, workerVars, life, agent,
                 cancelVars, parsed_command, restVars, sttVars>>

\* _handle_register_request publishes its result, ok or not
VisionPublishesResult(content) ==
  /\ vision.pc = "registering"
  /\ vision' = [vision EXCEPT !.pc = "loop"]
  /\ RegisterPut(vision.request, "VisionThread", "vision_register_result", content)
  /\ UNCHANGED <<storeVars, pc, cur, idx, received, published, inbox, engineVars,
                 workerVars, life, agent,
                 cancelVars, parsed_command, restVars, sttVars>>

\* time passes during a wait; the clock is not followed between two waits,
\* where nothing reads it
RegisterTick ==
  /\ now < MaxRegisterClock
  /\ agent.pc \in {"check", "get"}
  /\ now' = now + 1
  /\ UNCHANGED <<state, last, wake, twin, busVars, engineVars, workerVars, lateVars>>

NextRegister ==
  \/ StartRegistration
  \/ PublishRequest
  \/ WaitCheck
  \/ WaitGet
  \/ WaitEmpty
  \/ EmitReply
  \/ AgentStop
  \/ RegisterDispatch
  \/ VisionTakesRequest
  \/ \E content \in RegisterResults : VisionPublishesResult(content)
  \/ RegisterTick

SpecRegister == Init /\ [][NextRegister]_vars

\* a worker other than the vision thread publishes a vision_register_result
\* whose content is not a JSON object
ForeignResult(content) ==
  /\ agent.pc \in {"check", "get"}
  /\ queue = <<>>
  /\ \A i \in 1..Len(agent.arrived) : agent.arrived[i].sender # "Other"
  /\ RegisterPut(0, "Other", "vision_register_result", content)
  /\ UNCHANGED <<storeVars, pc, cur, idx, received, published, inbox, engineVars,
                 workerVars, lateVars>>

NextRegisterWait ==
  \/ NextRegister
  \/ \E content \in Malformed : ForeignResult(content)

\* the wait with its thread, the dispatcher and the clock never halted for
\* good
SpecRegisterWait ==
  /\ Init
  /\ [][NextRegisterWait]_vars
  /\ WF_vars(WaitCheck)
  /\ WF_vars(WaitGet)
  /\ WF_vars(WaitEmpty)
  /\ WF_vars(RegisterTick)

\* ------------------------------------------------ start_all, run, stop_all
\* ThreadManager.start_all sets its flag and goes through the workers
StartAll ==
  /\ manager.pc = "new"
  /\ manager' = [manager EXCEPT !.running = TRUE, !.pc = "starting", !.next = 1]
  /\ UNCHANGED <<storeVars, busVars, engineVars, workerVars, life,
                 registerVars, thread, parsed_command, restVars, sttVars>>

\* start_all starts the next worker; after the last one the main thread
\* enters ThreadManager.run
StartNext ==
  /\ manager.pc = "starting"
  /\ thread' = [thread EXCEPT ![RunLoops[manager.next]] = start(@)]
  /\ manager' = IF manager.next = Len(RunLoops)
                THEN [manager EXCEPT !.pc = "test", !.next = 0]
                ELSE [manager EXCEPT !.next = @ + 1]
  /\ UNCHANGED <<storeVars, busVars, engineVars, workerVars, life,
                 registerVars, parsed_command, restVars, sttVars>>

\* start() is called once more on a worker, the only one it is called
\* again on
Start(w) ==
  /\ thread[w].starts \in 1..(MaxStarts - 1)
  /\ \A v \in RunWorkers \ {w} : thread[v].starts <= 1
  /\ thread' = [thread EXCEPT ![w] = start(@)]
  /\ UNCHANGED <<storeVars, busVars, engineVars, workerVars, life,
                 registerVars, manager, parsed_command, restVars, sttVars>>

\* the while test of ThreadManager.run
ManagerTest ==
  /\ manager.pc = "test"
  /\ manager' = [manager EXCEPT !.pc = IF manager.running THEN "busy" ELSE "exited"]
  /\ UNCHANGED <<storeVars, busVars, engineVars, workerVars, life,
                 registerVars, thread, parsed_command, restVars, sttVars>>

\* one pass of ThreadManager.run ends: queue.get timed out, or the message
\* was broadcast
ManagerPassEnds ==
  /\ manager.pc = "busy"
  /\ manager' = [manager EXCEPT !.pc = "test"]
  /\ UNCHANGED <<storeVars, busVars, engineVars, workerVars, life,
                 registerVars, thread, parsed_command, restVars, sttVars>>

\* stop_all is called once start_all is through
StopAll ==
  /\ manager.pc \in {"test", "busy"}
  /\ ~manager.stopping
  /\ manager' = [manager EXCEPT !.stopping = TRUE, !.next = 1]
  /\ UNCHANGED <<storeVars, busVars, engineVars, workerVars, life,
                 registerVars, thread, parsed_command, restVars, sttVars>>

\* stop_all stops the next worker and, after the last, clears its own flag
StopNext ==
  /\ manager.stopping
  /\ manager.next >= 1
  /\ IF manager.next <= Len(RunLoops)
     THEN /\ thread' = [thread EXCEPT ![RunLoops[manager.next]] = stop(@)]
          /\ manager' = [manager EXCEPT !.next = @ + 1]
     ELSE /\ manager' = [manager EXCEPT !.running = FALSE, !.next = 0]
          /\ UNCHANGED thread
  /\ UNCHANGED <<storeVars, busVars, engineVars, workerVars, life,
                 registerVars, parsed_command, restVars, sttVars>>

\* the while test of the run of worker w
WhileRunning(w) ==
  /\ thread[w].pc = "test"
  /\ thread' = [thread EXCEPT ![w] = while_running(w, @)]
  /\ UNCHANGED <<storeVars, busVars, engineVars, workerVars, life,
                 registerVars, manager, parsed_command, restVars, sttVars>>

\* the pass of the loop of w ends: the inbox get timed out, or the capture,
\* the transcription, the reply, the speech or the tick and sleep is over
PassEnds(w) ==
  /\ thread[w].pc \in {"busy", "reply"}
  /\ thread' = [thread EXCEPT ![w].pc = "test"]
  /\ UNCHANGED <<storeVars, busVars, engineVars, workerVars, life,
                 registerVars, manager, parsed_command, restVars, sttVars>>

\* the agent's pass comes to a registration and _wait_for_register_result
\* starts polling
RegistrationWaitBegins ==
  /\ thread["AgentWorker"].pc = "busy"
  /\ thread' = [thread EXCEPT !["AgentWorker"].pc = "register_wait"]
  /\ UNCHANGED <<storeVars, busVars, engineVars, workerVars, life,
                 registerVars, manager, parsed_command, restVars, sttVars>>

\* a poll of _wait_for_register_result ends and its while test fails, the
\* flag cleared or the deadline passed, or a result came: the pass goes on
\* to _emit_reply
RegistrationWaitEnds(done) ==
  /\ thread["AgentWorker"].pc = "register_wait"
  /\ done \/ ~thread["AgentWorker"].running
  /\ thread' = [thread EXCEPT !["AgentWorker"].pc = "reply"]
  /\ UNCHANGED <<storeVars, busVars, engineVars, workerVars, life,
                 registerVars, manager, parsed_command, restVars, sttVars>>

\* the finally clause of MotionControlThread.run is through
ShutdownEnds ==
  /\ thread["MotionControlThread"].pc = "shutdown"
  /\ thread' = [thread EXCEPT !["MotionControlThread"].pc = "exited"]
  /\ UNCHANGED <<storeVars, busVars, engineVars, workerVars, life,
                 registerVars, manager, parsed_command, restVars, sttVars>>

NextCancel ==
  \/ StartAll
  \/ StartNext
  \/ \E w \in RunWorkers : Start(w)
  \/ ManagerTest
  \/ ManagerPassEnds
  \/ StopAll
  \/ StopNext
  \/ \E w \in RunWorkers : WhileRunning(w)
  \/ \E w \in RunWorkers : PassEnds(w)
  \/ RegistrationWaitBegins
  \/ \E done \in BOOLEAN : RegistrationWaitEnds(done)
  \/ ShutdownEnds

\* every thread keeps being scheduled and every operation in progress ends
SpecCancel ==
  /\ Init
  /\ [][NextCancel]_vars
  /\ WF_vars(StartNext)
  /\ WF_vars(StopNext)
  /\ WF_vars(ManagerTest)
  /\ WF_vars(ManagerPassEnds)
  /\ \A w \in RunWorkers : WF_vars(WhileRunning(w)) /\ WF_vars(PassEnds(w))
  /\ WF_vars(RegistrationWaitEnds(FALSE))
  /\ WF_vars(ShutdownEnds)

\* ------------------------------------------------------------- the parser
\* parse_motion_command is applied to a text; the function keeps no state,
\* so each behaviour follows one call
Parse(text) ==
  /\ mcall.op = "init"
  /\ parsed_command' = parse_motion_command(text)
  /\ mcall' = EngineCall("parse_motion_command", text)
  /\ UNCHANGED <<storeVars, busVars, motion, reported, workerVars, life, registerVars,
                 cancelVars, sttVars, restVars>>

NextParse == \E text \in ParserTexts : Parse(text)

SpecParse == Init /\ [][NextParse]_vars

\* ---------------------------------------------------- the workers together
\* one broadcast_message call of a worker
Item(sender, type, content) == [sender |-> sender, type |-> type, content |-> content]

\* the workers' broadcast_message calls put their messages on the queue
Enqueue(items) ==
  LET msgs == [i \in 1..Len(items) |->
                 BusMsg(Len(published) + i, items[i].sender, items[i].type,
                        items[i].content)]
  IN /\ queue' = queue \o msgs
     /\ published' = published \o msgs

\* what the sensor, vision and agent workers publish in the composed system
SystemInputs ==
  {Item("UltrasonicFront", "distance_cm", Obj1("value", JNum(10))),
   Item("VisionThread", "vision_identity",
        Obj2("face_detected", JBool(TRUE), "trust_level", JStr("Guest"))),
   Item("AgentWorker", "tts_request", Obj1("text", JStr("ok"))),
   Item("AgentWorker", "motion_command", Obj1("command", JStr("right")))}

\* the workers whose publications the model takes as inputs
InputWorkers == {"UltrasonicFront", "VisionThread", "AgentWorker"}

\* number of input messages published so far
InputsPublished ==
  Cardinality({i \in 1..Len(published) : published[i].sender \in InputWorkers})

\* a sensor, vision or agent worker publishes from its run loop
SysPublish(m) ==
  /\ InputsPublished < MaxInputs
  /\ Enqueue(<<m>>)
  /\ UNCHANGED <<pc, cur, idx, received, inbox, storeVars, engineVars,
                 workerVars, lateVars>>

\* the dispatcher takes the oldest message and replays it into the store
\* before the fan-out
SysDispatcherGet ==
  /\ pc = "idle"
  /\ queue # <<>>
  /\ cur' = Head(queue)
  /\ queue' = Tail(queue)
  /\ idx' = 1
  /\ pc' = "broadcast"
  /\ state' = apply_message(state, Head(queue), now)
  /\ last' = Call("apply_message", LoadsOrGetRaises(Head(queue).content), FALSE)
  /\ UNCHANGED <<now, wake, twin, received, published, inbox, engineVars,
                 workerVars, lateVars>>

\* AudioIOThread.run, one pass of the loop up to the capture: the greeting,
\* then should_listen; a capture session starts with audio_listening_started
AudioPoll(limit) ==
  /\ audio.pc = "poll"
  /\ audio.sessions < limit
  /\ LET greeted == _next_greeting_text(audio, now)
         polled == can_open_mic_state(state, now)
         should_listen == \/ can_open_mic(state, now)
                          \/ _should_force_open_mic(greeted, snapshot(polled), now)
         greeting == IF GreetingDue(audio, now)
                     THEN <<Item("AudioIOThread", "tts_request",
                                 Obj1("text", JStr("hi")))>>
                     ELSE <<>>
         started == IF should_listen
                    THEN <<Item("AudioIOThread", "audio_listening_started", Obj0)>>
                    ELSE <<>>
     IN /\ state' = polled
        /\ last' = Call("can_open_mic", FALSE, can_open_mic(state, now))
        /\ Enqueue(greeting \o started)
        /\ audio' = IF should_listen
                     THEN [greeted EXCEPT !.pc = "capture", !.sessions = @ + 1,
                                          !._counter = @ + 1,
                                          !.wav_path = _next_wav_path(greeted._counter + 1),
                                          !.has_speech = FALSE]
                     ELSE greeted
  /\ UNCHANGED <<now, wake, twin, pc, cur, idx, received, inbox, engineVars,
                 tts, lateVars>>

\* the audio loop in the composed system
AudioRun == AudioPoll(MaxSessions)

\* the messages of a session whose audio_listening_finished is published at
\* the end of the try block instead of in a finally block
session_messages_finished_in_try(wav_path, raised, promoted) ==
  IF raised
  THEN <<Item("AudioIOThread", "audio_error", Obj0)>>
  ELSE <<Item("AudioIOThread", "audio_listening_finished", Obj0)>>
       \o IF promoted
          THEN <<Item("AudioIOThread", "audio_utterance",
                      Obj1("wav_path", JStr(wav_path)))>>
          ELSE <<>>

\* the messages AudioIOThread.run publishes from the end of record_utterance
\* to the end of the pass
session_messages(wav_path, raised, promoted) ==
  (IF raised THEN <<Item("AudioIOThread", "audio_error", Obj0)>> ELSE <<>>)
  \o <<Item("AudioIOThread", "audio_listening_finished", Obj0)>>
  \o IF promoted
     THEN <<Item("AudioIOThread", "audio_utterance",
                 Obj1("wav_path", JStr(wav_path)))>>
     ELSE <<>>

\* AudioIOThread.run, the rest of a capture session: record_utterance
\* returns has_speech or raises (has_speech stays False), having written the
\* file or not; the except block publishes audio_error, the finally block
\* audio_listening_finished; then the utterance is published if there was
\* speech and the file exists, and the file is unlinked otherwise
AudioSessionEnds(has_speech, raised, written) ==
  /\ audio.pc = "capture"
  /\ raised => ~has_speech
  /\ LET promoted == has_speech /\ written
     IN /\ Enqueue(session_messages(audio.wav_path, raised, promoted))
        /\ files' = IF promoted
                     THEN files \cup {audio.wav_path}
                     ELSE files \ {audio.wav_path}
  /\ audio' = [audio EXCEPT !.pc = "poll", !.has_speech = has_speech]
  /\ UNCHANGED <<pc, cur, idx, received, inbox, storeVars, engineVars, tts, life,
                 registerVars, cancelVars, parsed_command, restVars, stt>>

\* a capture session in which record_utterance returns and the file is there
AudioCaptureEnds(has_speech) == AudioSessionEnds(has_speech, FALSE, TRUE)

\* TTSWorker.run takes a request from its inbox; _speak_payload publishes
\* tts_started before it speaks
TtsRun ==
  /\ tts.pc = "wait"
  /\ inbox["TTSWorker"] # <<>>
  /\ LET message == published[Head(inbox["TTSWorker"])]
         text == Strip(PyStr(Get(message.content, "text", JStr(""))))
     IN IF LoadsOrGetRaises(message.content)
        THEN /\ Enqueue(<<Item("TTSWorker", "tts_error", Obj0)>>)
             /\ UNCHANGED tts
        ELSE IF text = ""
        THEN UNCHANGED <<queue, published, tts>>
        ELSE /\ Enqueue(<<Item("TTSWorker", "tts_started", Obj1("text", JStr(text)))>>)
             /\ tts' = [tts EXCEPT !.pc = "speak"]
  /\ inbox' = [inbox EXCEPT !["TTSWorker"] = Tail(@)]
  /\ UNCHANGED <<pc, cur, idx, received, storeVars, engineVars, audio, lateVars>>

\* TTSWorker: tts.speak returns and tts_finished is published, or it raises
\* and run publishes tts_error instead
TtsSpeakEnds(raised) ==
  /\ tts.pc = "speak"
  /\ Enqueue(<<Item("TTSWorker", IF raised THEN "tts_error" ELSE "tts_finished", Obj0)>>)
  /\ tts' = [tts EXCEPT !.pc = "wait"]
  /\ UNCHANGED <<pc, cur, idx, received, inbox, storeVars, engineVars, audio, lateVars>>

RECURSIVE Drained(_, _, _)
\* the engine after the run loop handled the messages of its inbox, in order
Drained(e, ids, t) ==
  IF ids = <<>> THEN e
  ELSE LET message == published[Head(ids)]
           handled == IF message.type = "distance_cm"
                      THEN _handle_distance_message(e, message.content)
                      ELSE IF message.type = "motion_command"
                      THEN _handle_motion_message(e, message.content, t)
                      ELSE e
       IN Drained(handled, Tail(ids), t)

\* the motion_state messages among the calls of the engine
RECURSIVE MotionStates(_)
MotionStates(calls) ==
  IF calls = <<>> THEN <<>>
  ELSE (IF Head(calls).dev = "bus"
        THEN <<Item("MotionControlThread", "motion_state",
                    Obj1("moving", JBool(Head(calls).n = 1)))>>
        ELSE <<>>) \o MotionStates(Tail(calls))

\* MotionControlThread.run, one pass of the loop: the inbox is drained, then
\* _tick runs
MotionRun ==
  /\ LET after == _tick(Drained([motion EXCEPT !.calls = <<>>],
                                inbox["MotionControlThread"], now), now)
     IN /\ motion' = after
        /\ reported' = ReportedAfter(reported, after.calls)
        /\ Enqueue(MotionStates(after.calls))
  /\ mcall' = EngineCall("run", <<>>)
  /\ inbox' = [inbox EXCEPT !["MotionControlThread"] = <<>>]
  /\ UNCHANGED <<pc, cur, idx, received, storeVars, workerVars, lateVars>>

\* the workers, the dispatcher and the store together, as time passes
NextSystem ==
  \/ \E m \in SystemInputs : SysPublish(m)
  \/ SysDispatcherGet
  \/ Deliver
  \/ \E raised \in BOOLEAN : PatternEnds(raised)
  \/ AudioRun
  \/ \E has_speech \in BOOLEAN : AudioCaptureEnds(has_speech)
  \/ TtsRun
  \/ \E raised \in BOOLEAN : TtsSpeakEnds(raised)
  \/ MotionRun
  \/ Tick

SpecSystem == Init /\ [][NextSystem]_vars

\* ------------------------------------------------------- the wake pipeline
\* AudioIOThread.run, a pass that finds should_listen false and
\* _should_probe_wake_phrase true: a wake probe starts recording
WakeProbeStarts ==
  /\ audio.pc = "poll"
  /\ audio._counter < MaxProbes
  /\ LET greeted == _next_greeting_text(audio, now)
         polled == can_open_mic_state(state, now)
         should_listen == \/ can_open_mic(state, now)
                          \/ _should_force_open_mic(greeted, snapshot(polled), now)
         greeting == IF GreetingDue(audio, now)
                     THEN <<Item("AudioIOThread", "tts_request",
                                 Obj1("text", JStr("hi")))>>
                     ELSE <<>>
     IN /\ ~should_listen
        /\ _should_probe_wake_phrase(snapshot(polled), now)
        /\ state' = polled
        /\ last' = Call("can_open_mic", FALSE, can_open_mic(state, now))
        /\ Enqueue(greeting)
        /\ audio' = [greeted EXCEPT !.pc = "probe",
                                    !._counter = @ + 1,
                                    !.wav_path = _next_wav_path(greeted._counter + 1),
                                    !.has_speech = FALSE]
  /\ UNCHANGED <<now, wake, twin, pc, cur, idx, received, inbox, engineVars,
                 tts, lateVars>>

\* the wake probe ends: record_utterance returns has_speech or raises,
\* having written the file or not; audio_error is published if it raised,
\* audio_wake_candidate if there was speech and the file exists, and the
\* file is unlinked otherwise
WakeProbeEnds(has_speech, raised, written) ==
  /\ audio.pc = "probe"
  /\ raised => ~has_speech
  /\ LET promoted == has_speech /\ written
         error == IF raised
                  THEN <<BusMsg(Len(published) + 1, "AudioIOThread", "audio_error",
                                Obj0)>>
                  ELSE <<>>
         candidate == IF promoted
                      THEN <<Sent(BusMsg(Len(published) + Len(error) + 1,
                                         "AudioIOThread", "audio_wake_candidate",
                                         Obj1("wav_path", JStr(audio.wav_path))),
                                  now)>>
                      ELSE <<>>
     IN /\ queue' = queue \o error \o candidate
        /\ published' = published \o error \o candidate
        /\ files' = IF promoted
                     THEN files \cup {audio.wav_path}
                     ELSE files \ {audio.wav_path}
  /\ audio' = [audio EXCEPT !.pc = "poll", !.has_speech = has_speech]
  /\ UNCHANGED <<pc, cur, idx, received, inbox, storeVars, engineVars, tts, life,
                 registerVars, cancelVars, parsed_command, restVars, stt>>

\* ThreadManager.run takes the oldest message, replays it into the store and
\* calls STTWorker.handle_message, which runs up to the release of _wake_lock
SttDispatch ==
  /\ queue # <<>>
  /\ stt.handler = "idle"
  /\ queue' = Tail(queue)
  /\ state' = apply_message(state, Head(queue), now)
  /\ last' = Call("apply_message", LoadsOrGetRaises(Head(queue).content), FALSE)
  /\ stt' = STTWorker_handle_message(stt, Head(queue))
  /\ UNCHANGED <<now, wake, twin, pc, cur, idx, received, published, inbox,
                 engineVars, workerVars, life, registerVars, cancelVars,
                 parsed_command, restVars, files>>

\* STTWorker.handle_message, after the lock: the file of the candidate it
\* took out of the slot is deleted
SttDeleteStale ==
  /\ stt.handler = "delete"
  /\ files' = _delete_wav_safe(files, _wav_path_from_message(published[stt.stale]))
  /\ stt' = [stt EXCEPT !.handler = "idle", !.stale = 0]
  /\ UNCHANGED <<storeVars, busVars, engineVars, workerVars, life, registerVars,
                 cancelVars, parsed_command, restVars>>

\* STTWorker.run, one pass up to the call of transcribe: the pending wake
\* candidate is taken, or else the oldest utterance; a payload that cannot
\* be read publishes stt_error, one without a path is skipped, a wake
\* candidate that is too old is dropped, and the finally block runs
SttTake ==
  /\ stt.pc = "loop"
  /\ stt._latest_wake # 0 \/ stt._normal_inbox # <<>>
  /\ LET from_slot == stt._latest_wake # 0
         id == IF from_slot THEN stt._latest_wake ELSE Head(stt._normal_inbox)
         message == published[id]
         popped == IF from_slot
                   THEN [_pop_latest_wake(stt) EXCEPT !.taken = Append(@, <<id, now>>)]
                   ELSE [stt EXCEPT !._normal_inbox = Tail(@)]
         wav_path == _wav_path_from_message(message)
         found == [popped EXCEPT !.wav_path = wav_path]
     IN IF LoadsOrGetRaises(message.content)
        THEN /\ Enqueue(<<Item("STTWorker", "stt_error", Obj0)>>)
             /\ stt' = popped
             /\ UNCHANGED files
        ELSE IF wav_path = ""
        THEN /\ stt' = popped
             /\ UNCHANGED <<queue, published, files>>
        ELSE IF /\ message.type = "audio_wake_candidate"
                /\ stale_wake_candidate(stt.config, message, now)
        THEN /\ stt' = popped
             /\ files' = stt_finally(found, files)
             /\ UNCHANGED <<queue, published>>
        ELSE /\ stt' = [found EXCEPT !.pc = "transcribe",
                                     !.message = id,
                                     !.stt_started = now,
                                     !.transcribed = @ \cup {id}]
             /\ UNCHANGED <<queue, published, files>>
  /\ UNCHANGED <<pc, cur, idx, received, inbox, storeVars, engineVars, workerVars,
                 life, registerVars, cancelVars, parsed_command, restVars>>

\* what STTWorker.run publishes once transcribe returned text after
\* stt_ticks, or raised; the ts fields, which nothing reads, are left out
stt_messages(w, message, text, raised, stt_ticks) ==
  IF raised THEN <<Item("STTWorker", "stt_error", Obj0)>>
  ELSE IF Len(text) < w.config.min_text_chars THEN <<>>
  ELSE IF message.type = "audio_wake_candidate"
  THEN IF is_wake_phrase(text)
       THEN <<Item("STTWorker", "audio_wake_detected",
                   [form |-> "object",
                    obj |-> [EmptyObj EXCEPT
                               !["text"] = JStr(text),
                               !["duration_s"] =
                                  JNum(stt_wake_duration_s(w.config, stt_ticks)),
                               !["stt_ms"] = JNum(stt_ticks)]]),
              Item("STTWorker", "buzzer_countdown", Obj1("steps", JNum(1)))>>
       ELSE <<>>
  ELSE <<Item("STTWorker", "stt_text",
              [form |-> "object",
               obj |-> [EmptyObj EXCEPT !["text"] = JStr(text),
                                        !["wav_path"] = JStr(w.wav_path)]])>>

\* STTWorker.run, the rest of the pass: transcribe returns or raises, the
\* messages are published and the finally block runs
SttTranscribeEnds(text, raised) ==
  /\ stt.pc = "transcribe"
  /\ LET message == published[stt.message]
         items == stt_messages(stt, message, text, raised, now - stt.stt_started)
     IN /\ Enqueue(items)
        /\ stt' = [stt EXCEPT !.pc = "loop",
                              !.message = 0,
                              !.wav_path = "",
                              !.detected =
                                 IF /\ items # <<>>
                                    /\ items[1].type = "audio_wake_detected"
                                 THEN @ \cup {stt.message}
                                 ELSE @]
  /\ files' = stt_finally(stt, files)
  /\ UNCHANGED <<pc, cur, idx, received, inbox, storeVars, engineVars, workerVars,
                 life, registerVars, cancelVars, parsed_command, restVars>>

\* a quarter second passes in the wake pipeline
SttTick ==
  /\ now < MaxSttClock
  /\ now' = now + 1
  /\ UNCHANGED <<state, last, wake, twin, busVars, engineVars, workerVars, lateVars>>

\* the wake probes of the capture worker, the dispatcher and the
\* transcription worker; capture sessions are followed in NextCapture
NextStt ==
  \/ WakeProbeStarts
  \/ \E has_speech, raised, written \in BOOLEAN :
       WakeProbeEnds(has_speech, raised, written)
  \/ SttDispatch
  \/ SttDeleteStale
  \/ SttTake
  \/ \E text \in Transcripts, raised \in BOOLEAN : SttTranscribeEnds(text, raised)
  \/ SttTick

\* the transcription worker under each of its configurations
InitStt == \E stt_config \in STTWorkerConfigs : InitOf(4, stt_config)

SpecStt == InitStt /\ [][NextStt]_vars

\* --------------------------------------------------- record_utterance alone
\* record_utterance is called with a configuration
RecordStarts(cfg) ==
  /\ rec.pc \in {"idle", "done"}
  /\ rec' = [Recording(cfg) EXCEPT !.pc = "reading"]
  /\ UNCHANGED <<storeVars, busVars, engineVars, workerVars, life, registerVars,
                 cancelVars, parsed_command, sttVars, pulse, answer>>

\* one pass of the loop: a full frame is read, with voice in it or not, the
\* clock is read dt later, and the loop goes on or breaks
ReadFrame(is_speech, dt) ==
  /\ rec.pc = "reading"
  /\ LET r == frame_read(rec, is_speech, dt)
     IN rec' = IF loop_breaks(r)
               THEN [r EXCEPT !.pc = "done", !.returned = speech_found(r)]
               ELSE r
  /\ UNCHANGED <<storeVars, busVars, engineVars, workerVars, life, registerVars,
                 cancelVars, parsed_command, sttVars, pulse, answer>>

\* arecord ends: read returns less than a frame and the loop breaks
ShortRead ==
  /\ rec.pc = "reading"
  /\ rec' = [rec EXCEPT !.pc = "done", !.short_read = TRUE,
                        !.returned = speech_found(rec)]
  /\ UNCHANGED <<storeVars, busVars, engineVars, workerVars, life, registerVars,
                 cancelVars, parsed_command, sttVars, pulse, answer>>

NextVad ==
  \/ \E cfg \in VADConfigs : RecordStarts(cfg)
  \/ \E is_speech \in BOOLEAN, dt \in 1..2 : ReadFrame(is_speech, dt)
  \/ ShortRead

SpecVad == Init /\ [][NextVad]_vars

\* ------------------------------------------------- the agent and the trust
\* the words of the texts the agent is given
AgentWords ==
  {<<"l", "e", "f", "t">>, <<"r", "i", "g", "h", "t">>, <<"g", "o">>, <<"f", "o", "r", "w", "a", "r", "d">>, <<"b", "a", "c", "k">>, <<"F", "o", "l", "l", "o", "w">>, <<"s", "t", "o", "p">>, <<"t", "u", "r", "n">>, <<"s", "t", "e", "e", "r">>, <<"h", "e", "l", "l", "o">>, <<"p", "l", "e", "a", "s", "e">>}

\* the texts the transcription worker hands to the agent: one or two words
AgentTexts == {Join(ws) : ws \in UNION {[1..n -> AgentWords] : n \in 1..MaxWords}}

\* the commands parse_agent_reply finds in the replies of the language model
LlmCommands ==
  {NoCommand, <<"m", "o", "v", "e", " ", "f", "o", "r", "w", "a", "r", "d", " ", "1", "0", "c", "m">>, <<"l", "e", "f", "t">>, <<"s", "t", "o", "p">>, <<"r", "m">>}

\* the vision_identity messages that set the trust level of the store
TrustMessages ==
  {Msg("vision_identity",
       Obj2("face_detected", JBool(TRUE), "trust_level", JStr(level))) :
     level \in {"Guest", "Friend", "owner", "None"}}

\* the dispatcher replays a vision_identity before the agent has answered
TrustReplay(msg) ==
  /\ answer = NoAnswer
  /\ ApplyMessage(msg)

\* AgentWorker.run takes an stt_text from its inbox and answers it
AgentRun(user_text, llm_command, raised) ==
  /\ answer = NoAnswer
  /\ answer' = agent_pass(agent, user_text, trust_value(snapshot(state).trust),
                          llm_command, raised)
  /\ last' = Call("snapshot", FALSE, FALSE)
  /\ UNCHANGED <<state, now, wake, twin, busVars, engineVars, workerVars, life,
                 registerVars, cancelVars, parsed_command, sttVars, rec, pulse>>

NextTrust ==
  \/ \E msg \in TrustMessages : TrustReplay(msg)
  \/ \E user_text \in AgentTexts, llm_command \in LlmCommands, raised \in BOOLEAN :
       AgentRun(user_text, llm_command, raised)

SpecTrust == Init /\ [][NextTrust]_vars

\* ------------------------------------------------- the speech worker alone
\* what the agent and vision workers publish while the speech worker speaks
SpeakInputs ==
  {Item("AgentWorker", "tts_request", Obj1("text", JStr("ok"))),
   Item("AgentWorker", "tts_request", Obj1("text", JStr(" "))),
   Item("VisionThread", "vision_identity",
        Obj2("face_detected", JBool(TRUE), "trust_level", JStr("Guest")))}

\* tts.speak returns or raises
TtsSpeakReturns == \E raised \in BOOLEAN : TtsSpeakEnds(raised)

\* the speech worker, the dispatcher and the requests of the agent
NextSpeak ==
  \/ \E m \in SpeakInputs : SysPublish(m)
  \/ SysDispatcherGet
  \/ Deliver
  \/ TtsRun
  \/ TtsSpeakReturns
  \/ Tick

\* the dispatcher thread and the speech worker thread keep running, and
\* tts.speak comes back
FairSpeak ==
  /\ WF_vars(SysDispatcherGet)
  /\ WF_vars(Deliver)
  /\ WF_vars(TtsRun)
  /\ WF_vars(TtsSpeakReturns)

SpecSpeak == Init /\ [][NextSpeak]_vars /\ FairSpeak

\* ------------------------------------------------ an utterance is answered
\* what the vision and transcription workers publish while an utterance is
\* answered
ThinkInputs ==
  {Item("VisionThread", "vision_identity",
        Obj2("face_detected", JBool(TRUE), "trust_level", JStr("Guest"))),
   Item("STTWorker", "stt_text", Obj1("text", JStr("please")))}

\* number of messages the vision and transcription workers published so far
ThinkInputsPublished ==
  Cardinality({i \in 1..Len(published) :
                 published[i].sender \in {"VisionThread", "STTWorker"}})

\* the vision or the transcription worker publishes
ThinkInput(m) ==
  /\ ThinkInputsPublished < MaxInputs
  /\ Enqueue(<<m>>)
  /\ UNCHANGED <<pc, cur, idx, received, inbox, storeVars, engineVars,
                 workerVars, lateVars>>

\* the messages of a pass of AgentWorker.run, from the types it published:
\* the first llm_thinking of a pass that asks the language model carries
\* true, the last one (the finally block) false
AgentItems(types) ==
  [i \in 1..Len(types) |->
     Item("AgentWorker", types[i],
          CASE types[i] = "tts_request" -> Obj1("text", JStr("ok"))
            [] types[i] = "llm_thinking" -> Obj1("value", JBool(i < Len(types)))
            [] types[i] = "motion_command" -> Obj1("command", JStr("left"))
            [] OTHER -> Obj0)]

\* the texts of ThinkInputs
ThinkTexts ==
  {Characters(Strip(PyStr(Get(m.content, "text", JStr(""))))) :
     m \in {i \in ThinkInputs : i.type = "stt_text"}}

\* agent_pass over the texts of ThinkInputs, ask_llm returning a reply without
\* a command or raising
ThinkPasses ==
  [enable_filler_speech \in BOOLEAN, user_text \in ThinkTexts,
   trust_level \in 0..3, raised \in BOOLEAN |->
     agent_pass(AgentWorkerWith(enable_filler_speech), user_text, trust_level,
                NoCommand, raised)]

\* AgentWorker.run takes an stt_text from its inbox and answers it; ask_llm
\* returns a reply or raises
AgentAnswers(raised) ==
  /\ inbox["AgentWorker"] # <<>>
  /\ LET message == published[Head(inbox["AgentWorker"])]
         user_text == Characters(Strip(PyStr(Get(message.content, "text", JStr("")))))
         pass == ThinkPasses[agent.enable_filler_speech, user_text,
                             trust_value(snapshot(state).trust), raised]
     IN /\ answer' = pass
        /\ Enqueue(AgentItems(pass.types))
  /\ inbox' = [inbox EXCEPT !["AgentWorker"] = Tail(@)]
  /\ UNCHANGED <<pc, cur, idx, received, storeVars, engineVars, workerVars, life,
                 registerVars, cancelVars, parsed_command, sttVars, rec, pulse>>

\* ask_llm returns or raises
AgentPass == \E raised \in BOOLEAN : AgentAnswers(raised)

NextThink ==
  \/ \E m \in ThinkInputs : ThinkInput(m)
  \/ SysDispatcherGet
  \/ Deliver
  \/ AgentPass
  \/ TtsRun
  \/ TtsSpeakReturns

\* the dispatcher, the agent and the speech worker threads keep running, and
\* ask_llm and tts.speak come back
FairThink ==
  /\ WF_vars(SysDispatcherGet)
  /\ WF_vars(Deliver)
  /\ WF_vars(AgentPass)
  /\ WF_vars(TtsRun)
  /\ WF_vars(TtsSpeakReturns)

\* the agent with filler speech enabled (the default) or disabled
InitThink ==
  \E enable_filler_speech \in BOOLEAN :
    InitAll(MotionControlConfig(4), STTWorkerConfig, AudioIOConfig,
            enable_filler_speech)

SpecThink == InitThink /\ [][NextThink]_vars /\ FairThink

\* -------------------------------------------- wake probes and the store
\* what the vision, buzzer and transcription workers publish while the
\* capture worker probes
ProbeInputs ==
  {Item("VisionThread", "vision_identity",
        Obj2("face_detected", JBool(TRUE), "trust_level", JStr("Guest"))),
   Item("VisionThread", "vision_identity",
        Obj2("face_detected", JBool(FALSE), "trust_level", JStr("Guest"))),
   Item("BuzzerThread", "buzzer_state", Obj1("active", JBool(TRUE))),
   Item("STTWorker", "audio_wake_detected", Obj1("duration_s", JNum(3)))}

\* number of messages published so far by a worker other than the capture
\* worker
ProbeInputsPublished ==
  Cardinality({i \in 1..Len(published) : published[i].sender # "AudioIOThread"})

\* a worker other than the capture worker publishes
ProbeInput(m) ==
  /\ ProbeInputsPublished < MaxInputs
  /\ Enqueue(<<m>>)
  /\ UNCHANGED <<pc, cur, idx, received, inbox, storeVars, engineVars,
                 workerVars, lateVars>>

\* the capture worker probing, the dispatcher replaying into the store;
\* capture sessions are followed in NextCapture
NextProbe ==
  \/ \E m \in ProbeInputs : ProbeInput(m)
  \/ SysDispatcherGet
  \/ Deliver
  \/ WakeProbeStarts
  \/ \E has_speech, raised, written \in BOOLEAN :
       WakeProbeEnds(has_speech, raised, written)
  \/ Tick

SpecProbe == Init /\ [][NextProbe]_vars

\* ------------------------------------------------------------ follow mode
\* a configuration whose replan interval (0.75 s) is longer than its pulse
\* (0.25 s), the tolerance left to the 0.5 cm floor
FollowConfig ==
  [MotionControlConfig(0) EXCEPT !.follow_replan_interval_s = 3]

\* the commands given while follow mode is followed
FollowTexts == {Text_follow_10_cm, Text_stop_now}

\* the calls hold a forward or backward call on the wheels
StartsPulse(calls) ==
  \E i \in 1..Len(calls) :
    calls[i].dev = "wheels" /\ calls[i].op \in {"forward", "backward"}

\* _handle_motion_message hands a command text to execute_command_text
FollowCommand(text) ==
  /\ motion' = execute_command_text([motion EXCEPT !.calls = <<>>], text, now)
  /\ mcall' = EngineCall("execute_command_text", text)
  /\ reported' = ReportedAfter(reported, motion'.calls)
  /\ last' = Call("execute_command_text", FALSE, FALSE)
  /\ pulse' = [pulse EXCEPT !.commanded = @ \/ motion'._follow_enabled]
  /\ UNCHANGED <<state, now, wake, twin, busVars, workerVars, life, registerVars,
                 cancelVars, parsed_command, sttVars, rec, answer>>

\* the run loop drains a distance_cm message from the inbox
FollowDistance(content) ==
  /\ motion' = _handle_distance_message([motion EXCEPT !.calls = <<>>], content)
  /\ mcall' = EngineCall("_handle_distance_message", <<>>)
  /\ reported' = ReportedAfter(reported, motion'.calls)
  /\ last' = Call("_handle_distance_message", LoadsOrGetRaises(content), FALSE)
  /\ UNCHANGED <<state, now, wake, twin, busVars, workerVars, lateVars>>

\* the run loop calls _tick(now); a pulse _tick_follow starts is written down
\* with the error it was started for
FollowTick ==
  /\ motion' = _tick([motion EXCEPT !.calls = <<>>], now)
  /\ mcall' = EngineCall("_tick", <<>>)
  /\ reported' = ReportedAfter(reported, motion'.calls)
  /\ last' = Call("_tick", FALSE, FALSE)
  /\ pulse' = IF StartsPulse(motion'.calls)
              THEN [prev |-> pulse.at,
                    at |-> now,
                    direction |-> motion'._drive_direction,
                    error_cm |-> motion._latest_distance_cm - motion._follow_target_cm,
                    commanded |-> FALSE,
                    reentered |-> pulse.commanded]
              ELSE pulse
  /\ UNCHANGED <<state, now, wake, twin, busVars, workerVars, life, registerVars,
                 cancelVars, parsed_command, sttVars, rec, answer>>

\* a quarter second passes
FollowClock ==
  /\ now < MaxFollowClock
  /\ now' = now + 1
  /\ UNCHANGED <<state, last, wake, twin, busVars, engineVars, workerVars, lateVars>>

NextFollow ==
  \/ \E text \in FollowTexts : FollowCommand(text)
  \/ \E content \in DistanceContents : FollowDistance(content)
  \/ FollowTick
  \/ FollowClock

InitFollow == InitAll(FollowConfig, STTWorkerConfig, AudioIOConfig, TRUE)

SpecFollow == InitFollow /\ [][NextFollow]_vars

\* ------------------------------------------------------ the greeting policy
\* the capture worker configured with short greeting times: idle 0.75 s,
\* delay 0.25 s, forced opening 0.5 s
GreetingConfig ==
  [greeting_idle_s |-> 3, greeting_delay_s |-> 1, greeting_min_open_s |-> 2]

\* ThreadManager.broadcast_message hands a vision_identity to
\* AudioIOThread.handle_message
VisionIdentityHandled(face_detected) ==
  /\ audio' = AudioIOThread_handle_message(
                audio,
                BusMsg(0, "VisionThread", "vision_identity",
                       Obj1("face_detected", JBool(face_detected))),
                now)
  /\ UNCHANGED <<storeVars, busVars, engineVars, tts, lateVars>>

\* a quarter second passes
GreetTick ==
  /\ now < MaxGreetClock
  /\ now' = now + 1
  /\ UNCHANGED <<state, last, wake, twin, busVars, engineVars, workerVars, lateVars>>

NextGreet ==
  \/ \E face_detected \in BOOLEAN : VisionIdentityHandled(face_detected)
  \/ AudioPoll(MaxCaptures)
  \/ GreetTick

InitGreet == InitAll(MotionControlConfig(4), STTWorkerConfig, GreetingConfig, TRUE)

SpecGreet == InitGreet /\ [][NextGreet]_vars

\* -------------------------------------------------- the capture worker alone
\* what the vision worker publishes while the capture worker is followed
CaptureInputs ==
  {Item("VisionThread", "vision_identity",
        Obj2("face_detected", JBool(TRUE), "trust_level", JStr("Guest"))),
   Item("VisionThread", "vision_identity",
        Obj2("face_detected", JBool(FALSE), "trust_level", JStr("Guest")))}

\* the capture worker, the vision worker and the dispatcher
NextCapture ==
  \/ \E m \in CaptureInputs : SysPublish(m)
  \/ SysDispatcherGet
  \/ Deliver
  \/ AudioPoll(MaxCaptures)
  \/ \E has_speech, raised, written \in BOOLEAN :
       AudioSessionEnds(has_speech, raised, written)
  \/ Tick

SpecCapture == Init /\ [][NextCapture]_vars

\* ------------------------------------------------------------ store claims
Busy(s) == s.audio.tts_playing \/ s.audio.robot_moving \/ s.audio.buzzer_active

\* C1: a can_open_mic call made while ttsPlaying, robotMoving or buzzerActive
\* is true returns false.
C1_BusyKeepsMicClosed ==
  (last.op = "can_open_mic" /\ Busy(state)) => ~last.result

\* can_open_mic refused a store that has a face and an open mode, only
\* because the buzzer is active
C1_Witness ==
  /\ last.op = "can_open_mic"
  /\ ~last.result
  /\ state.audio.buzzer_active
  /\ ~state.audio.tts_playing
  /\ state.face_present
  /\ state.audio.mode = "ENGAGED"

\* C2: micMuted is true whenever ttsPlaying, robotMoving or buzzerActive is.
C2_BusyImpliesMuted == Busy(state) => state.audio.mic_muted

\* speech ended (or never began) while the robot still moves, and a malformed
\* payload was just replayed
C2_Witness ==
  /\ last.op = "apply_message"
  /\ last.malformed
  /\ state.audio.robot_moving
  /\ ~state.audio.tts_playing
  /\ ~state.audio.buzzer_active
  /\ state.audio.mic_muted
  /\ state.audio.mode = "ENGAGED"

\* C3: mode is SPEAKING only while ttsPlaying is true.
C3_SpeakingImpliesTtsPlaying ==
  state.audio.mode = "SPEAKING" => state.audio.tts_playing

\* the store is SPEAKING with a face gone, and can_open_mic was asked
C3_Witness ==
  /\ state.audio.mode = "SPEAKING"
  /\ ~state.face_present
  /\ state.audio.robot_moving
  /\ last.op = "can_open_mic"

\* C4: can_open_mic returns true iff (face or wake window active) and not
\* micMuted, ttsPlaying, robotMoving, buzzerActive and mode is ENGAGED or
\* IDLE, on the state the call leaves behind.
C4_MicEligibilityRule ==
  last.op = "can_open_mic" =>
    (last.result <=>
       /\ (state.face_present \/ now < state.audio.wake_override_until_monotonic)
       /\ ~state.audio.mic_muted
       /\ ~state.audio.tts_playing
       /\ ~state.audio.robot_moving
       /\ ~state.audio.buzzer_active
       /\ state.audio.mode \in {"ENGAGED", "IDLE"})

\* can_open_mic refused for the mode alone: a face, nothing busy, THINKING
C4_Witness ==
  /\ last.op = "can_open_mic"
  /\ ~last.result
  /\ state.face_present
  /\ ~state.audio.mic_muted
  /\ ~Busy(state)
  /\ state.audio.mode = "THINKING"

\* the guard of the demotion as the code has it
DemotionDue(s, t) ==
  /\ ~(t < s.audio.wake_override_until_monotonic)
  /\ ~s.face_present
  /\ s.audio.mode = "ENGAGED"
  /\ ~s.audio.tts_playing
  /\ ~s.audio.llm_thinking

\* the guard of the demotion as the claim has it
DemotionDueNoActuator(s, t) ==
  /\ ~(t < s.audio.wake_override_until_monotonic)
  /\ ~s.face_present
  /\ s.audio.mode = "ENGAGED"
  /\ ~Busy(s)

\* C5 as stated: can_open_mic demotes ENGAGED to IDLE exactly when the wake
\* window has lapsed, no face is present, mode is ENGAGED and none of
\* ttsPlaying, robotMoving, buzzerActive is true, else leaves the mode.
C5_DemotesUnlessActuatorBusy ==
  [][last'.op = "can_open_mic" =>
       state'.audio.mode =
         IF DemotionDueNoActuator(state, now) THEN "IDLE" ELSE state.audio.mode]_vars

\* C5 amended: can_open_mic demotes ENGAGED to IDLE exactly when the wake
\* window has lapsed, no face is present, mode is ENGAGED, ttsPlaying is false
\* and llmThinking is false; in every other state it changes nothing.
C5_DemotesUnlessSpeakingOrThinking ==
  [][last'.op = "can_open_mic" =>
       state' = IF DemotionDue(state, now)
                THEN [state EXCEPT !.audio.mode = "IDLE"]
                ELSE state]_vars

\* a call found the window lapsed, no face and nothing busy, and left the mode
\* ENGAGED because llmThinking was set
C5_Witness ==
  /\ last.op = "can_open_mic"
  /\ state.audio.mode = "ENGAGED"
  /\ state.audio.llm_thinking
  /\ ~Busy(state)
  /\ ~state.face_present
  /\ state.audio.wake_override_until_monotonic > 0
  /\ now >= state.audio.wake_override_until_monotonic

\* C6 as stated, from a quiet store: after audio_wake_detected with duration
\* t at time at, can_open_mic is true at every instant before at + t and
\* false from then on, and a call after the lapse leaves mode IDLE.
C6_WindowLastsDeclaredDuration ==
  (wake.armed /\ wake.pre_ok /\ last.op = "can_open_mic" /\ ~state.face_present) =>
    /\ last.result <=> now < wake.at + wake.dur
    /\ now >= wake.at + wake.dur => state.audio.mode = "IDLE"

\* C6 amended: from a store with no face, no busy flag, llmThinking false and
\* mode IDLE or ENGAGED, audio_wake_detected with duration t at time at makes
\* can_open_mic true at every instant before at + max(0.5 s, t) and false from
\* then on, and a call after the lapse leaves mode IDLE.
C6_WindowLastsFlooredDuration ==
  (wake.armed /\ wake.pre_ok /\ last.op = "can_open_mic" /\ ~state.face_present) =>
    /\ last.result <=> now < wake.at + Max(MinWakeWindow, wake.dur)
    /\ now >= wake.at + Max(MinWakeWindow, wake.dur) => state.audio.mode = "IDLE"

\* a window declared shorter than the floor, opened after time 0, has lapsed
\* and the call closed the microphone and demoted the mode
C6_Witness ==
  /\ wake.armed
  /\ wake.pre_ok
  /\ wake.at > 0
  /\ wake.dur < MinWakeWindow
  /\ now >= wake.at + MinWakeWindow
  /\ last.op = "can_open_mic"
  /\ ~last.result
  /\ state.audio.mode = "IDLE"

\* vision_identity messages that report a face
FaceMessages ==
  {msg \in Messages :
     /\ msg.type = "vision_identity"
     /\ ~LoadsOrGetRaises(msg.content)
     /\ PyBool(Get(msg.content, "face_detected", JBool(FALSE)))}

\* C7: from mode IDLE or ENGAGED with no busy flag, replaying vision_identity
\* with face_detected true (any trust level) makes can_open_mic true, now and
\* at any later instant, and the call leaves mode ENGAGED.
C7_FaceAloneOpensMic ==
  (state.audio.mode \in {"IDLE", "ENGAGED"} /\ ~Busy(state)) =>
    \A msg \in FaceMessages :
      \A t \in now..MaxClock :
        LET seen == apply_message(state, msg, now)
        IN /\ seen.audio.mode = "ENGAGED"
           /\ can_open_mic(seen, t)
           /\ can_open_mic_state(seen, t).audio.mode = "ENGAGED"

\* the microphone opened on a face with no wake event ever replayed
C7_Witness ==
  /\ last.op = "can_open_mic"
  /\ last.result
  /\ state.face_present
  /\ state.trust = "GUEST"
  /\ state.audio.wake_override_until_monotonic = 0
  /\ state.audio.mode = "ENGAGED"

MalformedMessages == {msg \in Messages : LoadsOrGetRaises(msg.content)}

ReturnOnErrorTags ==
  {"distance_cm", "vision_identity", "audio_utterance", "stt_text",
   "agent_reply", "motion_state", "buzzer_state"}

C11_ReplayIndependentOfPolling == snapshot(state) = snapshot(twin)

\* s with the mode left out of the comparison
SameButMode(s, r) == [s EXCEPT !.audio.mode = r.audio.mode] = r

\* C11 amended: the two runs agree on every field but the mode, and their
\* modes differ only as ENGAGED against IDLE, with no face present and the
\* wake window lapsed: the demotion one run's can_open_mic call already made.
C11_ReplayEqualUpToDemotion ==
  /\ SameButMode(snapshot(state), snapshot(twin))
  /\ state.audio.mode # twin.audio.mode =>
       /\ {state.audio.mode, twin.audio.mode} = {"ENGAGED", "IDLE"}
       /\ ~state.face_present
       /\ ~(now < state.audio.wake_override_until_monotonic)

\* a message was replayed after one run had demoted its mode and the other
\* had not, and the modes still differ
C11_Witness ==
  /\ last.op = "apply_message"
  /\ state.audio.mode = "IDLE"
  /\ twin.audio.mode = "ENGAGED"
  /\ state.audio.robot_moving

\* -------------------------------------------------------------- bus claims
RECURSIVE ReplayOf(_, _, _)
\* the store after apply_message of every message of seq, in order
ReplayOf(s, seq, t) ==
  IF seq = <<>> THEN s
  ELSE ReplayOf(apply_message(s, Head(seq), t), Tail(seq), t)

\* number of dequeued messages handle_message was invoked with on some worker
FannedOut ==
  CHOOSE k \in 0..Len(published) :
    /\ \A w \in Workers : Len(received[w]) <= k
    /\ \E w \in Workers : Len(received[w]) = k

\* every worker before threads[i] got each dequeued message before threads[i]
RegistrationOrder ==
  \A i, j \in 1..Len(threads) :
    i < j => /\ Len(received[threads[j]]) <= Len(received[threads[i]])
             /\ Len(received[threads[i]]) <= Len(received[threads[j]]) + 1

\* C9: every message the dispatcher dequeues is applied to the store once,
\* before handle_message runs for it on any worker, and handle_message then
\* runs on the workers in registration order.
C9_StoreReplayBeforeFanout ==
  /\ state = ReplayOf(SharedRuntimeState, SubSeq(Dequeued, 1, FannedOut), now)
  /\ RegistrationOrder

\* C10: once the dispatcher is done with the messages it dequeued, every
\* worker's handle_message has been invoked with all of them, in the order
\* they were put on the queue.
C10_EveryWorkerGetsAllInOrder ==
  pc \in {"idle", "crashed"} => \A w \in Workers : received[w] = Ids(Dequeued)

\* C12: an exception raised inside a worker's handle_message does not stop
\* the dispatcher: ThreadManager.run never ends on it, it goes on to the
\* remaining workers and to the later messages.
C12_DispatcherSurvivesHandlerException == pc # "crashed"

\* C13: no handle_message blocks the dispatcher thread: the dispatcher is never
\* inside an actuator pattern while messages published meanwhile wait in the
\* queue.
C13_HandlersNeverBlockDispatcher ==
  ~(pc = "pattern" /\ \E i \in 1..Len(queue) : queue[i].sender # "BuzzerThread")

\* ------------------------------------------------------------ motion claims
\* the steps of the stepper calls among the calls, in order
StepperSteps(calls) ==
  LET cs == SelectSeq(calls, LAMBDA c : c.dev = "stepper")
  IN [i \in 1..Len(cs) |-> cs[i].n]

\* the wheels calls among the calls, in order
WheelsActions(calls) ==
  LET cs == SelectSeq(calls, LAMBDA c : c.dev = "wheels")
  IN [i \in 1..Len(cs) |-> cs[i].op]

\* the calls on the stepper and the wheels, in order
HardwareCalls(calls) == SelectSeq(calls, LAMBDA c : c.dev # "bus")

\* the steps per side the engine works with
StepsPerSide == Max(1, motion.config.stepper_steps_per_90deg)

\* follow mode is on, target and distance are known, no drive is in progress
\* and the replan interval has elapsed at t
FollowTickDue(e, t) ==
  /\ e._follow_enabled
  /\ e._follow_target_cm # Missing
  /\ e._latest_distance_cm # Missing
  /\ e._drive_direction = "None"
  /\ t - e._last_follow_action_ts >= Max(MinInterval, e.config.follow_replan_interval_s)

\* one follow tick pulses forward iff the error exceeds tol, backward iff it
\* is below -tol, and not at all iff it is within tol
FollowRule(e, t, tol) ==
  LET wheels == WheelsActions(_tick_follow([e EXCEPT !.calls = <<>>], t).calls)
      error_cm == e._latest_distance_cm - e._follow_target_cm
  IN /\ wheels = <<"forward">> <=> error_cm > tol
     /\ wheels = <<"backward">> <=> error_cm < 0 - tol
     /\ wheels = <<>> <=> Abs(error_cm) <= tol

\* C15 as stated: when follow mode is on, a target is known, no drive is in
\* progress and the replan interval has elapsed, one follow tick pulses forward
\* iff d - target > tolerance, backward iff d - target < -tolerance, and not
\* at all iff |d - target| <= tolerance, tolerance being the configured one.
C15_FollowRuleConfiguredTolerance ==
  \A t \in now..MaxClock :
    FollowTickDue(motion, t) =>
      FollowRule(motion, t, motion.config.follow_tolerance_cm)

\* C15 amended: the same rule with tolerance max(0.5 cm, configured
\* tolerance).
C15_FollowRuleFlooredTolerance ==
  \A t \in now..MaxClock :
    FollowTickDue(motion, t) =>
      FollowRule(motion, t, Max(MinTolerance, motion.config.follow_tolerance_cm))

\* a tick found follow mode due with the distance 0.5 cm beyond the target
\* and a configured tolerance of 0, and issued no pulse
C15_Witness ==
  /\ mcall.op = "_tick"
  /\ FollowTickDue(motion, now)
  /\ motion.config.follow_tolerance_cm = 0
  /\ motion._latest_distance_cm - motion._follow_target_cm = 1
  /\ motion.calls = <<>>

\* C16: the steer side is always -1, 0 or +1, and a command that takes the
\* steering from side o to side s issues exactly one stepper call of
\* (s - o) * stepsPerSide steps when s # o and none when s = o.
C16_SteerClampedOneStepCall ==
  /\ [](motion._stepper_side \in {0 - 1, 0, 1})
  /\ [][last'.op = "execute_command_text" =>
          StepperSteps(motion'.calls) =
            IF motion'._stepper_side # motion._stepper_side
            THEN <<(motion'._stepper_side - motion._stepper_side) * StepsPerSide>>
            ELSE <<>>]_vars

\* right after left: one stepper call of twice the steps per side
C16_Witness ==
  /\ mcall.op = "execute_command_text"
  /\ mcall.text = Text_right
  /\ motion._stepper_side = 1
  /\ StepperSteps(motion.calls) = <<2 * StepsPerSide>>

\* C17: a forward or backward command run with steer side s # 0 issues the
\* steer delta -s * stepsPerSide before the wheels call and ends with side 0;
\* with side 0 it issues no steer step.
C17_StraightRecentresFirst ==
  [][(/\ last'.op = "execute_command_text"
      /\ ParsedTexts[mcall'.text].action \in {"forward", "backward"}) =>
       /\ motion'._stepper_side = 0
       /\ HardwareCalls(motion'.calls) =
            (IF motion._stepper_side # 0
             THEN <<Effect("stepper", "step", (0 - motion._stepper_side) * StepsPerSide)>>
             ELSE <<>>)
            \o <<Effect("wheels", ParsedTexts[mcall'.text].action, 0)>>]_vars

\* "go straight now" after "right": the steering stepped back, then the
\* wheels went forward
C17_Witness ==
  /\ mcall.op = "execute_command_text"
  /\ mcall.text = Text_go_straight_now
  /\ HardwareCalls(motion.calls) =
       <<Effect("stepper", "step", 0 - StepsPerSide), Effect("wheels", "forward", 0)>>
  /\ motion._stepper_side = 0
  /\ motion._drive_direction = "forward"

\* C18: a follow command first stops the drive, then recentres the steering,
\* and then has follow mode on with the target the command gave or, if it
\* gave none, the last distance the sensor reported.
C18_FollowStopsRecentresThenEnables ==
  [][(/\ last'.op = "execute_command_text"
      /\ ParsedTexts[mcall'.text].action = "follow") =>
       /\ HardwareCalls(motion'.calls) =
            <<Effect("wheels", "stop", 0)>>
            \o (IF motion._stepper_side # 0
                THEN <<Effect("stepper", "step", (0 - motion._stepper_side) * StepsPerSide)>>
                ELSE <<>>)
       /\ motion'._stepper_side = 0
       /\ motion'._drive_direction = "None"
       /\ ~motion'._is_moving
       /\ motion'._follow_enabled
       /\ motion'._follow_target_cm =
            IF ParsedTexts[mcall'.text].follow_target_cm # Missing
            THEN ParsedTexts[mcall'.text].follow_target_cm
            ELSE motion._latest_distance_cm]_vars

\* follow from the left side while driving, with a distance known: the drive
\* stopped, the steering stepped back to the centre, the target is the distance
C18_Witness ==
  /\ mcall.op = "execute_command_text"
  /\ mcall.text = Text_follow
  /\ motion.calls =
       <<Effect("wheels", "stop", 0), Effect("bus", "motion_state", 0),
         Effect("stepper", "step", StepsPerSide)>>
  /\ motion._follow_enabled
  /\ motion._follow_target_cm = 24
  /\ motion._latest_distance_cm = 24

\* C19 as stated: after any command text that does not parse to stop or
\* follow, follow mode is off.
C19_NonFollowCommandDisablesFollow ==
  [][(/\ last'.op = "execute_command_text"
      /\ ParsedTexts[mcall'.text].action \notin {"stop", "follow"}) =>
       ~motion'._follow_enabled]_vars

\* the actions of the manual commands
ManualActions ==
  {"stepper_left", "stepper_right", "stepper_center", "left", "right",
   "forward", "backward"}

\* C19 amended: after a command text that parses to a manual action (a drive
\* or a steering command) follow mode is off and the target forgotten; a text
\* that parses to no action leaves the engine as it was; and while follow
\* mode is off a follow tick issues nothing.
C19_ManualCommandDisablesFollow ==
  /\ [][last'.op = "execute_command_text" =>
          CASE ParsedTexts[mcall'.text].action \in ManualActions ->
                 ~motion'._follow_enabled /\ motion'._follow_target_cm = Missing
            [] ParsedTexts[mcall'.text].action = "unknown" ->
                 motion' = [motion EXCEPT !.calls = <<>>]
            [] OTHER -> TRUE]_vars
  /\ [](~motion._follow_enabled =>
          \A t \in now..MaxClock : _tick_follow(motion, t) = motion)

\* a steering command ended a follow mode that had already issued a pulse
C19_Witness ==
  /\ mcall.op = "execute_command_text"
  /\ mcall.text = Text_steer_right
  /\ ~motion._follow_enabled
  /\ motion._follow_target_cm = Missing
  /\ motion._last_follow_action_ts > 0
  /\ motion._stepper_side = 1

\* the published values alternate, the first differing from the last one
\* published before (or being true if there was none)
Alternates(before, pubs) ==
  \A i \in 1..Len(pubs) :
    pubs[i] = IF i = 1 THEN before # "true" ELSE ~pubs[i - 1]

\* the operations of the engine
EngineOps == {"execute_command_text", "_handle_distance_message", "_tick"}

\* a drive is active in engine e
DriveActive(e) == e._drive_direction # "None"

\* C20 as stated: the published motion_state values alternate, starting with
\* true, and a command or tick that does not change whether a drive is active
\* publishes nothing.
C20_PublishesOnlyOnActivityChange ==
  [][last'.op \in EngineOps =>
       LET pubs == PublishedStates(motion'.calls)
       IN /\ Alternates(reported, pubs)
          /\ DriveActive(motion') = DriveActive(motion) => pubs = <<>>]_vars

\* C20 amended: the published motion_state values alternate, starting with
\* true, one per toggle of the moving flag, which is set exactly while a drive
\* is active; a command or tick that changes whether a drive is active
\* publishes once, and one that does not publishes nothing, except a tick that
\* ends one follow pulse and starts the next, which publishes false then true.
C20_PublishesOnFlagEdges ==
  /\ [](motion._is_moving = DriveActive(motion))
  /\ [](motion._is_moving = (reported = "true"))
  /\ [][last'.op \in EngineOps =>
          LET pubs == PublishedStates(motion'.calls)
          IN /\ Alternates(reported, pubs)
             /\ IF DriveActive(motion') # DriveActive(motion)
                THEN pubs = <<DriveActive(motion')>>
                ELSE \/ pubs = <<>>
                     \/ /\ pubs = <<FALSE, TRUE>>
                        /\ last'.op = "_tick"
                        /\ motion'._follow_enabled]_vars

\* a tick ended a follow pulse and started the next one
C20_Witness ==
  /\ mcall.op = "_tick"
  /\ PublishedStates(motion.calls) = <<FALSE, TRUE>>
  /\ motion._is_moving
  /\ reported = "true"

\* ------------------------------------------------------------ system claims
\* C14: the store never holds mode LISTENING while ttsPlaying, robotMoving or
\* buzzerActive is true.
C14_ListeningExcludesBusy == ~(state.audio.mode = "LISTENING" /\ Busy(state))

\* ------------------------------------------------------- run loop claims
\* the release calls _shutdown_hardware is to attempt, in order
ReleaseCalls == [i \in 1..Len(ShutdownSteps) |-> ReleaseCall(ShutdownSteps[i])]

\* C21: when the engine's run loop has exited, normally or by an exception,
\* the four release steps were all attempted, in the order stop drive,
\* release stepper, close wheels, close stepper, whichever of them failed,
\* and _shutdown_hardware did not raise.
C21_ShutdownAttemptsAllFour ==
  life.pc = "exited" =>
    /\ HardwareCalls(motion.calls) = ReleaseCalls
    /\ ~life.shutdown_raised

\* the loop ended by an exception while a drive was on, the first and the
\* third release step failed, and the other two were still attempted
C21_Witness ==
  /\ life.pc = "exited"
  /\ life.by_exception
  /\ life.fails = {"_stop_drive", "wheels.close"}
  /\ motion._drive_direction = "forward"
  /\ HardwareCalls(motion.calls) = ReleaseCalls

\* ---------------------------------------------------- registration claims
\* C22: the result _wait_for_register_result returns for a request is a
\* vision_register_result published in response to that same request, never
\* the late result of an earlier request that timed out.
C22_ResultAnswersOwnRequest ==
  (agent.pc = "returned" /\ agent.returned.request # 0) =>
    agent.returned.request = agent.request

\* the results among seq whose content is a JSON object
Dicts(seq) == SelectSeq(seq, LAMBDA m : IsDict(m.content))

\* the results put in the inbox since the drain that the wait has dequeued
Dequeued_results ==
  SubSeq(agent.arrived, 1, Len(agent.arrived) - Len(agent._register_results))

\* what the wait has returned is right: the failure payload, the loop test
\* having found the deadline passed or the running flag cleared and every
\* result dequeued till then malformed; or the first well-formed result put
\* in the inbox, the ones skipped before it all malformed
ReturnIsRight ==
  \/ /\ agent.returned = Returned(TimedOut, 0)
     /\ now >= agent.deadline \/ ~agent.running
     /\ Dicts(Dequeued_results) = <<>>
  \/ /\ Dicts(agent.arrived) # <<>>
     /\ LET first == Dicts(agent.arrived)[1]
        IN agent.returned = Returned(first.content, first.id)
     /\ Len(Dicts(Dequeued_results)) = 1

\* C23: _wait_for_register_result always terminates without raising: every
\* wait that starts returns; what it returns is the first well-formed (JSON
\* object) result of the inbox, malformed results being skipped, or the
\* failure payload {ok: false, error: "registration timed out"} when the
\* loop finds the deadline passed or the running flag cleared first.
C23_WaitTerminatesWithResultOrTimeout ==
  /\ [](agent.pc = "returned" => ReturnIsRight)
  /\ (agent.pc = "check") ~> (agent.pc = "returned")

\* the wait skipped a malformed result and returned the well-formed one
\* that came after it
C23_Witness ==
  /\ agent.pc = "returned"
  /\ Len(agent.arrived) >= 2
  /\ ~IsDict(agent.arrived[1].content)
  /\ IsDict(agent.arrived[2].content)
  /\ agent.returned = Returned(agent.arrived[2].content, agent.arrived[2].id)

\* ----------------------------------------------------- cancellation claims
\* stop_all has cleared every running flag
FlagsCleared ==
  /\ manager.stopping
  /\ ~manager.running
  /\ \A w \in RunWorkers : ~thread[w].running

\* the dispatcher loop and every run loop have exited
AllExited ==
  /\ manager.pc = "exited"
  /\ \A w \in RunWorkers : thread[w].pc = "exited"

\* C24: cancellation is cooperative and effective: once stop_all() has
\* cleared the running flags, the dispatcher loop and the run loop of every
\* worker (capture, STT, agent, also inside a registration wait, TTS,
\* motion) exit when their current operation is over; and a second start()
\* on a worker raises and spawns no second thread.
C24_StopAllEndsEveryLoop ==
  /\ FlagsCleared ~> AllExited
  /\ [](\A w \in RunWorkers : thread[w].spawned <= 1)
  /\ [][\A w \in RunWorkers :
          (thread'[w].starts > thread[w].starts /\ thread[w].starts >= 1) =>
            /\ thread'[w].raised
            /\ thread'[w].spawned = thread[w].spawned
            /\ thread'[w].pc = thread[w].pc]_vars

\* the flags are cleared while the agent is inside a registration wait,
\* the motion engine inside a pass, and a second start() has raised
C24_Witness ==
  /\ FlagsCleared
  /\ thread["AgentWorker"].pc = "register_wait"
  /\ thread["MotionControlThread"].pc = "busy"
  /\ thread["STTWorker"].starts = 2
  /\ thread["STTWorker"].raised

\* ------------------------------------------------------------ tick claims
\* the timed drive of e has reached its deadline at t
DriveDue(e, t) == DriveActive(e) /\ t >= e._drive_until

\* C25: on every tick a timed drive whose deadline is at or before the tick
\* time is stopped before the follow loop is evaluated (the stop is the
\* first hardware call of the tick); while a timed drive is in progress the
\* tick issues no call at all; hence after a tick no drive is left whose
\* deadline is at or before the tick time.
C25_TickStopsDueDriveFirst ==
  [][last'.op = "_tick" =>
       LET hw == HardwareCalls(motion'.calls)
       IN /\ DriveDue(motion, now) =>
               /\ hw # <<>>
               /\ hw[1] = Effect("wheels", "stop", 0)
          /\ (DriveActive(motion) /\ ~DriveDue(motion, now)) =>
               /\ motion'.calls = <<>>
               /\ motion' = [motion EXCEPT !.calls = <<>>]
          /\ ~DriveDue(motion', now)]_vars

\* a tick stopped a manual drive at its deadline
C25_Witness ==
  /\ mcall.op = "_tick"
  /\ motion.calls # <<>>
  /\ HardwareCalls(motion.calls) = <<Effect("wheels", "stop", 0)>>
  /\ ~motion._follow_enabled
  /\ now >= MinInterval

\* ----------------------------------------------------------- parser claims
\* one of the tokens occurs in cmd
AnyIn(toks, cmd) == \E tok \in toks : In(tok, cmd)

StopTokens == {<<"s", "t", "o", "p">>, <<"h", "a", "l", "t">>, <<"c", "a", "n", "c", "e", "l">>, <<"f", "r", "e", "e", "z", "e">>}
BackwardTokens == {<<"b", "a", "c", "k", "w", "a", "r", "d">>, <<"b", "a", "c", "k">>, <<"r", "e", "v", "e", "r", "s", "e">>}
ForwardTokens == {<<"f", "o", "r", "w", "a", "r", "d">>, <<"a", "h", "e", "a", "d">>, <<"f", "r", "o", "n", "t">>, <<"s", "t", "r", "a", "i", "g", "h", "t">>}

\* the actions the priority order of the rules allows for a command text
ActionsByPriority(command_text) ==
  LET cmd == lower(strip(command_text))
  IN IF AnyIn(StopTokens, cmd) THEN {"stop"}
     ELSE IF In(<<"f", "o", "l", "l", "o", "w">>, cmd) THEN {"follow"}
     ELSE IF In(<<"c", "e", "n", "t", "e", "r">>, cmd) /\ stepper_hint(cmd) THEN {"stepper_center"}
     ELSE IF In(<<"l", "e", "f", "t">>, cmd) THEN {"left", "stepper_left"}
     ELSE IF In(<<"r", "i", "g", "h", "t">>, cmd) THEN {"right", "stepper_right"}
     ELSE IF AnyIn(BackwardTokens, cmd) THEN {"backward"}
     ELSE IF AnyIn(ForwardTokens, cmd) THEN {"forward"}
     ELSE {"unknown"}

\* C26: parse_motion_command applies its rules in strict priority order: a
\* stop token (stop, halt, cancel, freeze) yields stop whatever else the
\* text holds; otherwise follow yields follow; otherwise steering-center,
\* then left, then right, then backward, then forward; a text with none of
\* the keywords, or an empty one, yields unknown.
C26_ParsePriorityOrder ==
  mcall.op = "parse_motion_command" =>
    parsed_command.action \in ActionsByPriority(mcall.text)

\* a text with follow before a stop token parsed to stop
C26_Witness ==
  /\ mcall.op = "parse_motion_command"
  /\ mcall.text = Join(<<<<"F", "o", "l", "l", "o", "w">>, <<"h", "a", "l", "t">>>>)
  /\ parsed_command.action = "stop"

\* ---------------------------------------------------------- capture claims
\* the types of the session messages the capture worker published, in order
SessionEvents(pub) ==
  LET Kept(m) == /\ m.sender = "AudioIOThread"
                 /\ m.type \in {"audio_listening_started", "audio_listening_finished",
                                 "audio_utterance"}
      kept == SelectSeq(pub, Kept)
  IN [i \in 1..Len(kept) |-> kept[i].type]

\* started and finished alternate, and an utterance comes right after the
\* finished of its session
SessionsBracketed ==
  LET ev == SessionEvents(published)
  IN /\ \A i \in 1..Len(ev) :
          /\ ev[i] = "audio_listening_started" =>
               IF i = Len(ev) THEN audio.pc = "capture"
               ELSE ev[i + 1] = "audio_listening_finished"
          /\ ev[i] = "audio_listening_finished" =>
               i > 1 /\ ev[i - 1] = "audio_listening_started"
          /\ ev[i] = "audio_utterance" =>
               i > 1 /\ ev[i - 1] = "audio_listening_finished"

\* the pass that ends a session published one finished, and the utterance
\* exactly when speech was found and the file is kept
SessionEndsRight ==
  (audio.pc = "capture" /\ audio'.pc = "poll") =>
    LET new == SubSeq(published', Len(published) + 1, Len(published'))
        Count(type) == Cardinality({i \in 1..Len(new) : new[i].type = type})
    IN /\ Count("audio_listening_finished") = 1
       /\ Count("audio_listening_started") = 0
       /\ Count("audio_utterance") <= 1
       /\ Count("audio_utterance") = 1 => audio'.has_speech
       /\ Count("audio_utterance") = 1 <=> audio.wav_path \in files'

\* C30: every audio_listening_started of the capture worker is followed by
\* exactly one audio_listening_finished before the next started, also when
\* the recording raises; an audio_utterance is published only after the
\* finished of its session and only if speech was found, and otherwise the
\* file of the session is deleted.
C30_SessionsBracketedAndPromotedOrDeleted ==
  []SessionsBracketed /\ [][SessionEndsRight]_vars

\* two sessions ended, the first by an exception of record_utterance: its
\* audio_error is followed by audio_listening_finished and its file is gone
C30_Witness ==
  /\ audio.pc = "poll"
  /\ audio.sessions = 2
  /\ \E i \in 1..Len(published) - 1 :
       /\ published[i].type = "audio_error"
       /\ published[i + 1].type = "audio_listening_finished"
  /\ _next_wav_path(1) \notin files

\* ---------------------------------------------------- wake candidate claims
\* the wake candidates handle_message of STTWorker was called with
Delivered ==
  {i \in 1..Len(published) :
     /\ published[i].type = "audio_wake_candidate"
     /\ \A k \in 1..Len(queue) : queue[k].id # i}

\* how many times the run loop took candidate i out of the slot
TimesTaken(i) == Cardinality({k \in 1..Len(stt.taken) : stt.taken[k][1] = i})

\* C27: the transcription worker holds at most one pending wake candidate:
\* a newly arriving audio_wake_candidate replaces the pending one and the file
\* of the replaced one is deleted, and every candidate handed to the worker
\* is pending, or was taken by the run loop exactly once, or was discarded by
\* replacement, and never two of these.
C27_CandidateTakenOnceOrReplaced ==
  /\ \A i \in Delivered :
       LET pending == stt._latest_wake = i
           taken == TimesTaken(i) = 1
           discarded == i \in stt.replaced
       IN /\ TimesTaken(i) <= 1
          /\ pending \/ taken \/ discarded
          /\ ~(pending /\ taken) /\ ~(pending /\ discarded) /\ ~(taken /\ discarded)
  /\ stt._latest_wake # 0 => stt._latest_wake \in Delivered
  /\ \A i \in stt.replaced :
       stt.stale # i => _wav_path_from_message(published[i]) \notin files

\* a second candidate replaced the first, whose file is deleted, and the run
\* loop took the second
C27_Witness ==
  /\ stt.replaced = {1}
  /\ stt.handler = "idle"
  /\ _wav_path_from_message(published[1]) \notin files
  /\ TimesTaken(2) = 1

\* the time the run loop took candidate i out of the slot
TakenAt(i) == stt.taken[CHOOSE k \in 1..Len(stt.taken) : stt.taken[k][1] = i][2]

\* the candidates that were too old when the run loop took them: older than
\* the staleness bound (one tick in every configuration of the model)
TakenStale ==
  {i \in Delivered :
     /\ TimesTaken(i) = 1
     /\ TakenAt(i) - published[i].sent_at > stt.config.wake_candidate_max_age_s}

\* a wake candidate too old at dequeue time is never transcribed, never
\* leads to audio_wake_detected, and its file is deleted
C28_StaleCandidateDroppedAndDeleted ==
  \A i \in TakenStale :
    /\ i \notin stt.transcribed
    /\ i \notin stt.detected
    /\ _wav_path_from_message(published[i]) \notin files

\* C28, with the deletion as the code does it: a wake candidate too old at
\* dequeue time is never transcribed and never leads to audio_wake_detected,
\* and its file is deleted if delete_wav_after_stt is set.
C28_StaleCandidateDropped ==
  \A i \in TakenStale :
    /\ i \notin stt.transcribed
    /\ i \notin stt.detected
    /\ stt.config.delete_wav_after_stt =>
         _wav_path_from_message(published[i]) \notin files

\* a candidate was taken two ticks after its capture and dropped, its file
\* deleted, in a configuration that deletes files
C28_Witness ==
  /\ 1 \in TakenStale
  /\ TakenAt(1) - published[1].sent_at = 2
  /\ stt.config.delete_wav_after_stt
  /\ stt.pc = "loop"
  /\ 1 \notin stt.transcribed
  /\ _next_wav_path(1) \notin files

\* the pass that ends a transcription declares, in any audio_wake_detected
\* it publishes, the duration made from the latency it measured
WakeDurationDeclared ==
  (stt.pc = "transcribe" /\ stt'.pc = "loop") =>
    LET latency == now - stt.stt_started
        new == SubSeq(published', Len(published) + 1, Len(published'))
    IN \A k \in 1..Len(new) :
         new[k].type = "audio_wake_detected" =>
           LET duration_s == PyFloat(Get(new[k].content, "duration_s", JNull))
           IN /\ duration_s =
                   Max(MinWakeDuration, stt.config.wake_open_s + Max(MinLatency, latency))
              /\ duration_s >= stt.config.wake_open_s + latency

\* C29: every audio_wake_detected the transcription worker publishes declares
\* duration_s = max(0.5, wake_open_s + max(1.0, measured transcription
\* latency)), which is never less than wake_open_s plus that latency.
C29_WakeDurationCoversLatency == [][WakeDurationDeclared]_vars

\* a wake phrase found after five ticks of transcription: the declared
\* duration is the default window plus those five ticks
C29_Witness ==
  \E k \in 1..Len(published) :
    /\ published[k].type = "audio_wake_detected"
    /\ published[k].content.obj["stt_ms"] = JNum(5)
    /\ published[k].content.obj["duration_s"] = JNum(53)

\* ------------------------------------------------ voice-activity claims
\* the three stop conditions as the statement gives them
StopConditionStated(r) ==
  \/ r.elapsed >= Max(MinRecord, r.cfg.max_record_s)
  \/ r.speech_started /\ r.trailing_silence_ms >= r.cfg.silence_ms
  \/ r.elapsed >= Max(MinRecord, r.cfg.min_open_s) /\ ~r.speech_started

\* the stop conditions with the trailing-silence one held back until
\* min-open has elapsed
StopConditionAfterMinOpen(r) ==
  \/ r.elapsed >= Max(MinRecord, r.cfg.max_record_s)
  \/ /\ r.elapsed >= Max(MinRecord, r.cfg.min_open_s)
     /\ (~r.speech_started \/ r.trailing_silence_ms >= r.cfg.silence_ms)

\* a session still recording after a frame has none of the three conditions
\* as stated
C31_StopsOnStatedConditions ==
  (rec.pc = "reading" /\ rec.frames # <<>>) => ~StopConditionStated(rec)

\* C31, as the code does it: a session stops at the first frame after which
\* max duration has elapsed, or min-open has elapsed and either no speech has
\* started or the trailing silence has reached the threshold; it never keeps
\* recording after that, and stops earlier only when the audio stream ends.
C31_StopsOnceMinOpenElapsed ==
  /\ (rec.pc = "reading" /\ rec.frames # <<>>) => ~StopConditionAfterMinOpen(rec)
  /\ (rec.pc = "done" /\ ~rec.short_read) => StopConditionAfterMinOpen(rec)

\* a session with speech stopped by trailing silence after min-open, before
\* max duration
C31_Witness ==
  /\ rec.pc = "done"
  /\ ~rec.short_read
  /\ rec.speech_started
  /\ rec.trailing_silence_ms >= rec.cfg.silence_ms
  /\ rec.elapsed < rec.cfg.max_record_s
  /\ rec.returned

\* ------------------------------------------------------- greeting claims
\* handle_message saw the face appear
RisingEdge == ~audio._face_present /\ audio'._face_present

\* the step set a greeting time
Schedules ==
  /\ audio'._pending_greeting_due_ts # Missing
  /\ audio'._pending_greeting_due_ts # audio._pending_greeting_due_ts

\* a rising edge after a greeting schedules a new one only if the time since
\* that greeting has reached the idle threshold
RegreetOnlyAfterIdleSinceGreeting ==
  (RisingEdge /\ audio.greeted_at # Missing /\ Schedules) =>
    now - audio.greeted_at >= audio.config.greeting_idle_s

C32_RegreetByIdleSinceGreeting == [][RegreetOnlyAfterIdleSinceGreeting]_vars

\* the first rising edge schedules a greeting; after a greeting, a rising
\* edge schedules one exactly when the face had been lost for the idle
\* threshold or longer
RegreetByIdleSinceFaceLost ==
  RisingEdge =>
    /\ audio.greeted_at = Missing =>
         audio'._pending_greeting_due_ts = now + audio.config.greeting_delay_s
    /\ (audio.greeted_at # Missing /\ Schedules) =>
         now - audio._last_face_lost_ts >= audio.config.greeting_idle_s
    /\ (/\ audio.greeted_at # Missing
        /\ now - audio._last_face_lost_ts < audio.config.greeting_idle_s) =>
         audio'._pending_greeting_due_ts = audio._pending_greeting_due_ts

\* C32, as the code does it: the first face-presence rising edge always
\* schedules a greeting; after a greeting has been emitted, a later rising
\* edge schedules a new greeting only if the time since the face was last
\* lost has reached the greeting idle threshold, and is suppressed otherwise.
C32_RegreetByIdleSinceFaceLost == [][RegreetByIdleSinceFaceLost]_vars

\* a second greeting was scheduled after the first was emitted and the face
\* had been away for the idle threshold
C32_Witness ==
  /\ audio.greeted_at # Missing
  /\ audio._face_present
  /\ audio._pending_greeting_due_ts = now + audio.config.greeting_delay_s
  /\ audio._last_face_lost_ts # Missing
  /\ now - audio._last_face_lost_ts >= audio.config.greeting_idle_s

\* --------------------------------------------------------- follow claims
\* the replan interval _tick_follow works with
ReplanInterval == Max(MinInterval, motion.config.follow_replan_interval_s)

\* a pulse goes forward for a positive error, backward for a negative one
PulseDirectionBySign ==
  pulse.at # Missing =>
    /\ pulse.error_cm > 0 => pulse.direction = "forward"
    /\ pulse.error_cm < 0 => pulse.direction = "backward"
    /\ pulse.error_cm # 0

\* any two consecutive follow pulses start at least the replan interval apart
C33_PulsesReplanIntervalApart ==
  /\ pulse.prev # Missing => pulse.at - pulse.prev >= ReplanInterval
  /\ PulseDirectionBySign

\* C33, as the code does it: two consecutive follow pulses with no follow
\* command between them start at least the replan interval apart in tick
\* time, and each pulse goes forward when the error (distance - target) is
\* positive and backward when it is negative.
C33_PulsesApartWithinFollowMode ==
  /\ (pulse.prev # Missing /\ ~pulse.reentered) =>
       pulse.at - pulse.prev >= ReplanInterval
  /\ PulseDirectionBySign

\* a second pulse of the same follow mode was started, backward
C33_Witness ==
  /\ pulse.prev # Missing
  /\ ~pulse.reentered
  /\ pulse.direction = "backward"
  /\ pulse.error_cm < 0

\* ------------------------------------------------------ wake probe claims
\* the messages a step put on the bus
NewlyPublished == SubSeq(published', Len(published) + 1, Len(published'))

\* what a wake probe may publish
ProbeTypes == {"audio_wake_candidate", "audio_error"}

\* a probe starts only in a pass where should_listen is false and the
\* snapshot shows no face, no wake window and no busy actuator
ProbeStartsWhenQuiet ==
  (audio.pc = "poll" /\ audio'.pc = "probe") =>
    /\ ~can_open_mic(state, now)
    /\ ~_should_force_open_mic(audio', snapshot(state'), now)
    /\ ~snapshot(state').face_present
    /\ ~_wake_active_unlocked(snapshot(state'), now)
    /\ ~Busy(snapshot(state'))

\* while a probe runs and when it ends, the capture worker publishes
\* audio_wake_candidate or audio_error only, one candidate at most
ProbePublishesCandidateOrError ==
  audio.pc = "probe" =>
    LET mine == SelectSeq(NewlyPublished, LAMBDA m : m.sender = "AudioIOThread")
    IN /\ \A i \in 1..Len(mine) : mine[i].type \in ProbeTypes
       /\ Cardinality({i \in 1..Len(mine) : mine[i].type = "audio_wake_candidate"}) <= 1
       /\ audio'.pc = "probe" => mine = <<>>

\* the dispatcher replaying what a probe published leaves the mode alone
ProbeMessageKeepsMode ==
  (pc = "idle" /\ pc' = "broadcast" /\ cur'.type \in ProbeTypes) =>
    state'.audio.mode = state.audio.mode

\* C34: the capture worker runs a wake-probe session only in an iteration
\* where should_listen is false and the store snapshot shows no face, no
\* active wake window and no busy actuator flag; the session publishes at
\* most an audio_wake_candidate (or audio_error), never
\* audio_listening_started, audio_listening_finished or audio_utterance, and
\* what it publishes does not change the store's mode.
C34_ProbeOnlyWhenQuietAndSilentOnMode ==
  /\ [][ProbeStartsWhenQuiet]_vars
  /\ [][ProbePublishesCandidateOrError]_vars
  /\ [][ProbeMessageKeepsMode]_vars

\* a probe published its candidate and the dispatcher replayed it, after the
\* store had seen a face come and go
C34_Witness ==
  /\ cur.type = "audio_wake_candidate"
  /\ pc = "broadcast"
  /\ audio.pc = "poll"
  /\ \E i \in 1..Len(published) : published[i].type = "vision_identity"

\* ------------------------------------------------------- speech claims
\* the types the speech worker published, in order
SpokenTypes ==
  LET mine == SelectSeq(published, LAMBDA m : m.sender = "TTSWorker")
  IN [i \in 1..Len(mine) |-> mine[i].type]

\* the last tts_started of the speech worker has its tts_finished
LastStartedFinished ==
  \A i \in 1..Len(SpokenTypes) :
    SpokenTypes[i] = "tts_started" =>
      \E j \in (i + 1)..Len(SpokenTypes) : SpokenTypes[j] = "tts_finished"

\* C35: every tts_started published by the speech worker is eventually
\* followed by a tts_finished from the same worker, also when tts.speak
\* raises, and the store's tts_playing is eventually cleared.
C35_StartedLeadsToFinished ==
  /\ (tts.pc = "speak") ~> LastStartedFinished
  /\ state.audio.tts_playing ~> ~state.audio.tts_playing

\* ------------------------------------------------------- THINKING claims
\* the step replayed msg into the store
Replayed(msg) ==
  /\ last'.op = "apply_message"
  /\ state' = apply_message(state, msg, now)

\* the payload of a vision_identity reports that no face is seen
ReportsNoFace(msg) ==
  /\ msg.type = "vision_identity"
  /\ ~LoadsOrGetRaises(msg.content)
  /\ ~PyBool(Get(msg.content, "face_detected", JBool(FALSE)))

\* can_open_mic called in THINKING returns false and leaves the mode
CanOpenMicKeepsThinking ==
  (state.audio.mode = "THINKING" /\ last'.op = "can_open_mic") =>
    /\ state'.audio.mode = "THINKING"
    /\ ~last'.result

\* in THINKING, none of the four events changes the mode
ThinkingHeldUnderPresenceEvents ==
  /\ \A msg \in ControlMessages :
       (/\ state.audio.mode = "THINKING"
        /\ msg.type \in {"vision_identity", "audio_listening_started",
                         "audio_listening_finished", "audio_wake_detected"}
        /\ Replayed(msg)) =>
         state'.audio.mode = "THINKING"
  /\ CanOpenMicKeepsThinking

C36_ThinkingHeldUntilSpeech == [][ThinkingHeldUnderPresenceEvents]_vars

\* in THINKING, audio_wake_detected and a vision_identity that does not
\* report an absent face leave the mode; a vision_identity reporting no
\* face sets ENGAGED or IDLE, audio_listening_started sets LISTENING,
\* audio_listening_finished sets ENGAGED or IDLE
ThinkingHeldUnlessFaceLostOrSession ==
  /\ \A msg \in ControlMessages :
       (state.audio.mode = "THINKING" /\ Replayed(msg)) =>
         /\ (\/ msg.type = "audio_wake_detected"
             \/ msg.type = "vision_identity" /\ ~ReportsNoFace(msg)) =>
              state'.audio.mode = "THINKING"
         /\ (ReportsNoFace(msg) \/ msg.type = "audio_listening_finished") =>
              state'.audio.mode = presence_mode(state', now)
         /\ msg.type = "audio_listening_started" =>
              state'.audio.mode = "LISTENING"
  /\ CanOpenMicKeepsThinking

\* C36, as the code does it: once stt_text has been applied the mode stays
\* THINKING under audio_wake_detected events, vision_identity events that do
\* not report an absent face and can_open_mic calls, and can_open_mic returns
\* false while the mode is THINKING; a vision_identity reporting no face,
\* audio_listening_started and audio_listening_finished replace THINKING
\* before any tts_started.
C36_ThinkingHeldUnlessFaceLostOrSession ==
  [][ThinkingHeldUnlessFaceLostOrSession]_vars

\* can_open_mic was asked in THINKING with a face present and nothing busy
C36_Witness ==
  /\ state.audio.mode = "THINKING"
  /\ last.op = "can_open_mic"
  /\ state.face_present
  /\ ~Busy(state)
  /\ ~state.audio.mic_muted

\* --------------------------------------------------------- buzzer claims
\* C37: whenever the buzzer is sounding, between the start and the end of a
\* pattern run by BuzzerThread.handle_message, the store's buzzer_active is
\* already true and can_open_mic is false.
C37_BuzzerActiveWhileSounding ==
  pc = "pattern" =>
    /\ state.audio.buzzer_active
    /\ ~can_open_mic(state, now)

\* ---------------------------------------------------------- trust claims
\* the actions that drive, turn, steer or follow
MovingActions ==
  {"forward", "backward", "left", "right", "stepper_left", "stepper_right",
   "stepper_center", "follow"}

\* C38: the agent publishes a motion_command that parse_motion_command turns
\* into a drive, turn, steering or follow action only if the trust level it
\* read from the store is at least min_move_trust.
C38_MotionOnlyWithTrust ==
  (/\ answer.motion_command # NoCommand
   /\ parse_motion_command(answer.motion_command).action \in MovingActions) =>
    answer.trust_level >= min_move_trust

\* ----------------------------------------------------------- mute claims
\* C39: in every store state reachable by replaying events, mic_muted is
\* false whenever tts_playing, robot_moving and buzzer_active are all false,
\* so mic_muted equals the OR of the three busy flags.
C39_MutedEqualsBusy ==
  /\ ~Busy(state) => ~state.audio.mic_muted
  /\ state.audio.mic_muted = Busy(state)

\* an event was replayed into a store that has a face, is ENGAGED with the
\* agent thinking, and has nothing busy and the microphone not muted
C39_Witness ==
  /\ last.op = "apply_message"
  /\ ~Busy(state)
  /\ ~state.audio.mic_muted
  /\ state.face_present
  /\ state.audio.mode = "ENGAGED"
  /\ state.audio.llm_thinking

\* ------------------------------------------------------- answering claims
\* C40: after stt_text has been applied, under fair scheduling of the agent,
\* the speech worker and the dispatcher, the mode eventually leaves THINKING,
\* also when the agent publishes agent_error while a face stays present.
C40_ThinkingEventuallyLeft ==
  (state.audio.mode = "THINKING" /\ state.face_present)
    ~> (state.audio.mode # "THINKING")

====
